---- MODULE Spec2Model ----
(***************************************************************************)
(* Model of the user/group synchronisation of the Ranger charm             *)
(* (src/src/groups.py, RangerGroupManager) against a Ranger directory.     *)
(*                                                                         *)
(* The handler _handle_synchronize_file runs to completion inside one      *)
(* event; it is modelled as a sequence of steps (pc), one step per request *)
(* sent to the Ranger API or per item skipped, so that the order of the    *)
(* requests and the failure of each single request are visible.            *)
(***************************************************************************)
EXTENDS Integers, Sequences, FiniteSets, TLC

VARIABLES
    vXGroups,               \* remote directory: set of [id, name]
    vXUsers,                \* remote directory: set of [id, name]
    vXGroupUsers,           \* remote directory: set of [id, name, userId]
    nextId,                 \* next id the remote directory hands out
    leader,                 \* self.charm.unit.is_leader()
    status,                 \* message of self.charm.unit.status
    policy_relations,       \* ids of the established "policy" relations
    relation_data,          \* relation id -> "user-group-configuration" of the app databag
    config,                 \* charm config "user-group-configuration": <<[key, data], ...>>
    config_data,            \* the mapping _read_file() returned to the running handler
    pc,                     \* position of the handler
    keyIdx,                 \* position of "for key in config_data"
    kindIdx,                \* position in the sequence of _sync calls of _synchronize
    existing_values,        \* list fetched by _get_existing_values
    existing_combinations,  \* set of (name, userId) still to be matched / deleted
    idx,                    \* position of the running for-loop
    uidx,                   \* position of the inner loop over apply_membership["users"]
    deferred,               \* event.defer() was called while handling the current event
    crashed,                \* an exception escaped the handler
    runs,                   \* events delivered so far
    faults,                 \* requests that did not succeed so far
    requests,               \* every request sent to the Ranger API, in order
    runStart,               \* Len(requests) when the current event was delivered
    passStart,              \* Len(requests) when the current _synchronize was called
    passKey,                \* key the current _synchronize was called with
    passDesired,            \* data the current _synchronize was called with
    passUsers,              \* names of the remote users when it was called
    passGroups,             \* names of the remote groups when it was called
    passState,              \* "none", "running", "completed", "aborted"
    passWritten,            \* _add_to_relations wrote relation data for that key
    prevPass,               \* the _synchronize call before the current one
    func,                   \* retry: the wrapped request being called
    rpc,                    \* retry: position of the wrapper
    attempt,                \* retry: loop variable of the wrapper
    current_delay,          \* retry: delay of the next sleep
    calls,                  \* retry: what each call of the wrapped request did
    slept,                  \* retry: the durations of the sleeps so far
    result,                 \* retry: <<value returned>>, <<>> when none
    raisedExc,              \* retry: exception the wrapper raised, "" when none
    handled,                \* how the caller of the wrapper took it, "" when pending
    status_name,            \* class of self.unit.status: Active, Blocked, Maintenance, Waiting
    peer,                   \* the "peer" relation is established
    state,                  \* self._state: the fields stored in the peer app databag
    charm_config,           \* self.config: the charm configuration
    can_connect,            \* container.can_connect()
    plan,                   \* the pebble plan of the container: service name -> service
    container_calls,        \* what the handler that ran last did to the container, in order
    check_up,               \* the pebble check "up" reported UP when it was last read
    escaped,                \* exception that escaped the handler that ran last, "" when none
    policy_data,            \* policy relation id -> what the charm wrote to its app databag
    ranger_services,        \* the services of Ranger Admin: set of [id, name, policies]
    last_event,             \* the event the handler that ran last was called with
    opensearch_relation,    \* the "opensearch" relation is established
    ldap_data               \* what the charm wrote to its app databag of the "ldap" relation

vars == <<vXGroups, vXUsers, vXGroupUsers, nextId, leader, status, policy_relations,
          relation_data, config, config_data, pc, keyIdx, kindIdx, existing_values,
          existing_combinations, idx, uidx, deferred, crashed, runs, faults, requests,
          runStart, passStart, passKey, passDesired, passUsers, passGroups, passState,
          passWritten, prevPass, func, rpc, attempt, current_delay, calls, slept,
          result, raisedExc, handled, status_name, peer, state, charm_config, can_connect,
          plan, container_calls, check_up, escaped, policy_data, ranger_services,
          last_event, opensearch_relation, ldap_data>>

(***************************************************************************)
(* Bounds of the model.                                                    *)
(***************************************************************************)
MaxRuns == 2        \* events delivered to the handler
MaxFaults == 1      \* requests that end in an unexpected status or a service error

(***************************************************************************)
(* Literals.                                                               *)
(***************************************************************************)
SYSTEM_GROUPS == {"public"}
EXPECTED_KEYS == {"users", "groups", "memberships"}
StatusUp == "Status check: UP"

\* A value of a membership's "users" list: a user name as declared, or the
\* remote id that _get_user_ids put in its place.
Name(n) == [id |-> 0, name |-> n]
Id(i) == [id |-> i, name |-> ""]
NoUser == Id(0)

Range(s) == {s[i] : i \in DOMAIN s}


(***************************************************************************)
(* The values the model draws its inputs from.                             *)
(***************************************************************************)
G(n) == [name |-> n]
M(g, us) == [groupname |-> g, users |-> us]
Rec(gs, us, ms) == [groups |-> gs, users |-> us, memberships |-> ms]
EmptyRecord == Rec(<<>>, <<>>, <<>>)

\* Desired records (the value of one scope of user-group-configuration).
Finance == Rec(<<G("finance")>>, <<G("alice")>>, <<M("finance", <<Name("alice")>>)>>)
FinanceNoMembers == Rec(<<G("finance")>>, <<G("alice")>>, <<>>)
Doubled == Rec(<<G("finance"), G("finance")>>, <<G("alice"), G("alice")>>,
               <<M("finance", <<Name("alice"), Name("alice")>>)>>)
Hr == Rec(<<G("hr")>>, <<G("bob")>>, <<M("hr", <<Name("bob")>>)>>)
Unknown == Rec(<<G("finance")>>, <<G("alice")>>,
               <<M("finance", <<Name("carol"), Name("alice")>>)>>)
\* a scope written without its memberships key
NoMemberships == [groups |-> <<G("finance")>>, users |-> <<>>]

Scope(k, d) == [key |-> k, data |-> d]
Configs ==
    {<<Scope("relation_1", d)>> :
        d \in {Finance, FinanceNoMembers, Doubled, Hr, Unknown, NoMemberships}}
    \cup {<<Scope("relation_1", Finance), Scope("relation_2", Hr)>>}

\* Remote directories the handler may find.
RemoteGroups ==
    {{},
     {[id |-> 1, name |-> "public"], [id |-> 3, name |-> "hr"]},
     {[id |-> 1, name |-> "public"], [id |-> 2, name |-> "finance"], [id |-> 3, name |-> "hr"]}}
Alice == [id |-> 4, name |-> "alice"]
Bob == [id |-> 5, name |-> "bob"]
RemoteUsers == {{}, {Bob}, {Alice, Bob}}
PublicAlice == [id |-> 6, name |-> "public", userId |-> Id(4)]
FinanceAlice == [id |-> 7, name |-> "finance", userId |-> Id(4)]
HrBob == [id |-> 8, name |-> "hr", userId |-> Id(5)]
RemoteGroupUsers(users) ==
    {ms \in {{}, {PublicAlice, FinanceAlice}, {HrBob}} :
        \A m \in ms : \E u \in users : Id(u.id) = m.userId}

RelationIds == {1, 2, 3}
\* f"relation_{relation.id}"
\* "service_name": data["name"], what the related application called its
\* service when the relation was established
service_name(r) ==
    IF r = 1 THEN "trino-service" ELSE IF r = 2 THEN "hive-service" ELSE "relation_1"
\* f"relation_{relation.id}"
RelationKeyByServiceName(r) == service_name(r)
RelationKey(r) ==
    IF r = 1 THEN "relation_1" ELSE IF r = 2 THEN "relation_2" ELSE "relation_3"

Names(S) == {x.name : x \in S}
Combinations(S) == {<<m.name, m.userId>> : m \in S}

(***************************************************************************)
(* The charm (src/src/charm.py and src/src/relations): configuration,      *)
(* peer state, unit status, pebble plan and the services of Ranger Admin.  *)
(***************************************************************************)
ADMIN_ENTRYPOINT == "/home/ranger/scripts/ranger-admin-entrypoint.sh"
USERSYNC_ENTRYPOINT == "/home/ranger/scripts/ranger-usersync-entrypoint.sh"
RELATION_VALUES ==
    {"sync_ldap_bind_dn", "sync_ldap_bind_password", "sync_ldap_search_base",
     "sync_ldap_user_search_base", "sync_group_search_base", "sync_ldap_url"}
DEFAULT_POLICIES ==
    {"all - trinouser", "all - catalog", "all - function",
     "all - catalog, sessionproperty", "all - catalog, schema, procedure",
     "all - catalog, schema, table", "all - systemproperty",
     "all - catalog, schema, table, column", "all - catalog, schema"}

\* Python's None; the validator blank_string turns an empty config string into it.
None == ""
Or(a, b) == IF a # None THEN a ELSE b
EmptyDict == [k \in {} |-> None]
DictGet(d, k) == IF k \in DOMAIN d THEN d[k] ELSE None
DictSet(d, k, v) == [x \in DOMAIN d \cup {k} |-> IF x = k THEN v ELSE d[x]]

\* The fields of CharmConfig whose name starts with "sync": the six a LDAP
\* relation can provide and two it cannot.
SyncKeys == RELATION_VALUES \cup {"sync_ldap_deltasync", "sync_interval"}
\* key.upper()
Upper(key) ==
    [sync_ldap_bind_dn |-> "SYNC_LDAP_BIND_DN",
     sync_ldap_bind_password |-> "SYNC_LDAP_BIND_PASSWORD",
     sync_ldap_search_base |-> "SYNC_LDAP_SEARCH_BASE",
     sync_ldap_user_search_base |-> "SYNC_LDAP_USER_SEARCH_BASE",
     sync_group_search_base |-> "SYNC_GROUP_SEARCH_BASE",
     sync_ldap_url |-> "SYNC_LDAP_URL",
     sync_ldap_deltasync |-> "SYNC_LDAP_DELTASYNC",
     sync_interval |-> "SYNC_INTERVAL"][key]

\* self.config: the two passwords, the function of the unit, the url of the
\* policy manager, and the "sync" fields as one mapping.
CharmConfig(function, admin_password, usersync_password, sync) ==
    [charm_function |-> function,
     ranger_admin_password |-> admin_password,
     ranger_usersync_password |-> usersync_password,
     policy_mgr_url |-> "http://ranger-k8s:6080",
     sync |-> sync]
SyncDefaults == [k \in SyncKeys |->
                    IF k = "sync_ldap_deltasync" THEN "False"
                    ELSE IF k = "sync_interval" THEN "3600000" ELSE None]
SyncConfigured == [k \in SyncKeys |->
                    IF k \in RELATION_VALUES THEN "config:" \o k ELSE SyncDefaults[k]]
SyncPartly == [SyncConfigured EXCEPT !["sync_ldap_url"] = None]
DefaultConfig == CharmConfig("admin", "rangerR0cks!", "rangerR0cks!", SyncDefaults)
CharmConfigs ==
    {CharmConfig(f, a, u, s) : f \in {"admin", "usersync"},
                               a \in {"rangerR0cks!", "s3cure-pass"},
                               u \in {"rangerR0cks!", "us3rsync-pass"},
                               s \in {SyncDefaults, SyncConfigured, SyncPartly}}

\* The class of the status the synchronisation handler meets.
StatusName(message) == IF message = StatusUp THEN "Active" ELSE "Maintenance"

charmVars == <<peer, state, charm_config, can_connect, plan, container_calls, check_up,
               escaped, policy_data, ranger_services, last_event, opensearch_relation,
               ldap_data>>

\* The charm right after its construction: no peer relation, nothing stored,
\* nothing planned, no policy relation served.
CharmIdle ==
    /\ peer = FALSE
    /\ state = EmptyDict
    /\ charm_config = DefaultConfig
    /\ can_connect = FALSE
    /\ plan = EmptyDict
    /\ container_calls = <<>>
    /\ check_up = FALSE
    /\ escaped = ""
    /\ policy_data = [r \in RelationIds |-> EmptyDict]
    /\ ranger_services = {}
    /\ last_event = ""
    /\ opensearch_relation = FALSE
    /\ ldap_data = EmptyDict

retryVars == <<func, rpc, attempt, current_delay, calls, slept, result, raisedExc, handled>>

\* No wrapped request is being followed.
RetryIdle ==
    /\ func = ""
    /\ rpc = "idle"
    /\ attempt = 0
    /\ current_delay = 0
    /\ calls = <<>>
    /\ slept = <<>>
    /\ result = <<>>
    /\ raisedExc = ""
    /\ handled = ""

\* No event is being handled and none has been.
HandlerIdle ==
    /\ relation_data = [r \in RelationIds |-> <<>>]
    /\ config_data = <<>>
    /\ pc = "idle"
    /\ keyIdx = 0
    /\ kindIdx = 0
    /\ existing_values = <<>>
    /\ existing_combinations = {}
    /\ idx = 0
    /\ uidx = 0
    /\ deferred = FALSE
    /\ crashed = FALSE
    /\ runs = 0
    /\ faults = 0
    /\ requests = <<>>
    /\ runStart = 0
    /\ passStart = 0
    /\ passKey = ""
    /\ passDesired = EmptyRecord
    /\ passUsers = {}
    /\ passGroups = {}
    /\ passState = "none"
    /\ prevPass = [desired |-> EmptyRecord, clean |-> FALSE]
    /\ passWritten = FALSE

Init ==
    /\ RetryIdle
    /\ HandlerIdle
    /\ vXGroups \in RemoteGroups
    /\ vXUsers \in RemoteUsers
    /\ vXGroupUsers \in RemoteGroupUsers(vXUsers)
    /\ nextId = 9     \* the ids above are taken
    /\ leader \in BOOLEAN
    /\ status \in {StatusUp, "replanning application"}
    /\ status_name = StatusName(status)
    /\ CharmIdle
    /\ policy_relations = {1, 3}
    /\ config \in Configs

(***************************************************************************)
(* Helpers of the handler.                                                 *)
(***************************************************************************)
\* The order in which the remote directory lists its records: by id.
RECURSIVE SortById(_)
SortById(S) ==
    IF S = {} THEN <<>>
    ELSE LET m == CHOOSE x \in S : \A y \in S : x.id <= y.id
         IN <<m>> \o SortById(S \ {m})

\* next((v for v in values if v.get("name") == name), None)
Matching(values, name) == \E i \in DOMAIN values : values[i].name = name

\* The calls of _synchronize, in order; "groupusers" is _sync_memberships.
KindOrderUsersFirst == <<"users", "groups", "groupusers">>
KindOrder == <<"groups", "users", "groupusers">>

\* _sync: if member_type == "groups": self._delete_groups(...)
DeletesSurplusTypo(member_type) == member_type = "group"
DeletesSurplus(member_type) == member_type = "groups"

\* _delete_groups: self._delete("groups", group_id)
DeleteGroupsEndpointUsers == "users"
DeleteGroupsEndpoint == "groups"

\* _delete_groups: if existing_name in SYSTEM_GROUPS: continue
IsProtectedNever(existing_name) == FALSE
IsProtected(existing_name) == existing_name \in SYSTEM_GROUPS

\* data = next(iter(config_data.values())): the first value of the mapping,
\* whatever the key of the iteration is.
DataIdx(k) == 1

\* user_id_mapping.get(user_name, user_name)
UserIdMapping(users, user_name) ==
    IF \E u \in users : Name(u.name) = user_name
    THEN Id((CHOOSE u \in users : Name(u.name) = user_name).id)
    ELSE user_name

\* _get_user_ids: members["users"] = user_ids, for every member of the list
GetUserIdsStopsAtUnknown(users, apply_memberships) ==
    [i \in DOMAIN apply_memberships |->
        LET names == apply_memberships[i].users
            known(j) == UserIdMapping(users, names[j]) # names[j]
            last == IF \A j \in DOMAIN names : known(j) THEN Len(names)
                    ELSE CHOOSE j \in DOMAIN names :
                            ~known(j) /\ \A k \in 1..(j - 1) : known(k)
        IN [apply_memberships[i] EXCEPT
               !.users = [j \in 1..last |-> UserIdMapping(users, names[j])]]]
GetUserIds(users, apply_memberships) ==
    [i \in DOMAIN apply_memberships |->
        [apply_memberships[i] EXCEPT
            !.users = [j \in DOMAIN apply_memberships[i].users |->
                          UserIdMapping(users, apply_memberships[i].users[j])]]]

\* One request sent to the Ranger API and how it ended: "ok" (the expected
\* status), "soft" (another status) or "fail" (RangerServiceException after
\* the retries).
Req(op, member_type, id, name, userId, outcome) ==
    [op |-> op, member_type |-> member_type, id |-> id, name |-> name,
     userId |-> userId, outcome |-> outcome]

Outcomes == IF faults < MaxFaults THEN {"ok", "soft", "fail"} ELSE {"ok"}

\* The requests of the current _synchronize call / of the current event.
PassLog == SubSeq(requests, passStart + 1, Len(requests))
RunLog == SubSeq(requests, runStart + 1, Len(requests))
AllOk(log) == \A i \in DOMAIN log : log[i].outcome = "ok"

remote == <<vXGroups, vXUsers, vXGroupUsers, nextId>>
env == <<leader, status, status_name, policy_relations, config>>
passVars == <<passStart, passKey, passDesired, passUsers, passGroups, passWritten, prevPass>>

(***************************************************************************)
(* The Ranger API.                                                         *)
(***************************************************************************)
\* One call of a request function that got a response (or exhausted its
\* retries) stands for one request to the service.
SentAgainOnSoft(r) ==
    IF r.outcome = "soft" THEN Append(Append(requests, r), r) ELSE Append(requests, r)
Sent(r) == Append(requests, r)

\* GET /service/xusers/{member_type}
Get(member_type, outcome) ==
    /\ requests' = Sent(Req("GET", member_type, 0, "", NoUser, outcome))
    /\ faults' = IF outcome = "ok" THEN faults ELSE faults + 1
    /\ UNCHANGED remote

\* POST /service/xusers/{member_type}: with status 200 the record exists
\* afterwards (it is created unless one of that identity is there already).
Post(member_type, name, userId, outcome) ==
    LET there ==
            CASE member_type = "groups" -> {g \in vXGroups : g.name = name}
              [] member_type = "users" -> {u \in vXUsers : u.name = name}
              [] OTHER -> {m \in vXGroupUsers : m.name = name /\ m.userId = userId}
        add == outcome = "ok" /\ there = {}
        id == IF outcome # "ok" THEN 0
              ELSE IF there = {} THEN nextId
              ELSE (CHOOSE x \in there : TRUE).id
    IN /\ requests' = Sent(Req("POST", member_type, id, name, userId, outcome))
       /\ faults' = IF outcome = "ok" THEN faults ELSE faults + 1
       /\ nextId' = IF add THEN nextId + 1 ELSE nextId
       /\ vXGroups' = IF add /\ member_type = "groups"
                      THEN vXGroups \cup {[id |-> nextId, name |-> name]} ELSE vXGroups
       /\ vXUsers' = IF add /\ member_type = "users"
                     THEN vXUsers \cup {[id |-> nextId, name |-> name]} ELSE vXUsers
       /\ vXGroupUsers' = IF add /\ member_type = "groupusers"
                          THEN vXGroupUsers \cup
                               {[id |-> nextId, name |-> name, userId |-> userId]}
                          ELSE vXGroupUsers

\* DELETE /service/xusers/{member_type}/{value_id}: with status 204 the
\* record of that id is gone.
Delete(member_type, value_id, name, userId, outcome) ==
    LET gone(S) == {x \in S : x.id # value_id}
    IN /\ requests' = Sent(Req("DELETE", member_type, value_id, name, userId, outcome))
       /\ faults' = IF outcome = "ok" THEN faults ELSE faults + 1
       /\ nextId' = nextId
       /\ vXGroups' = IF outcome = "ok" /\ member_type = "groups"
                      THEN gone(vXGroups) ELSE vXGroups
       /\ vXUsers' = IF outcome = "ok" /\ member_type = "users"
                     THEN gone(vXUsers) ELSE vXUsers
       /\ vXGroupUsers' = IF outcome = "ok" /\ member_type = "groupusers"
                          THEN gone(vXGroupUsers) ELSE vXGroupUsers

(***************************************************************************)
(* Control flow shared by the steps.                                       *)
(***************************************************************************)
\* data["groups"], data["users"], data["memberships"]
KindKey(member_type) == IF member_type = "groupusers" THEN "memberships" ELSE member_type
HasKey(data, member_type) == KindKey(member_type) \in DOMAIN data

StartPc(member_type) ==
    IF member_type = "groupusers" THEN "get_memberships" ELSE "sync_get"

\* The handler goes on inside the current _sync call.
Continue(p) ==
    /\ pc' = p
    /\ UNCHANGED <<keyIdx, kindIdx, deferred, crashed, passState>>

\* A RangerServiceException reaches _synchronize: it is logged, the event is
\* deferred and _synchronize returns to the loop over the keys.
RaiseNotDeferred ==
    /\ pc' = "for_key"
    /\ keyIdx' = keyIdx + 1
    /\ passState' = "aborted"
    /\ UNCHANGED <<kindIdx, crashed, deferred>>
Raise ==
    /\ pc' = "for_key"
    /\ keyIdx' = keyIdx + 1
    /\ deferred' = TRUE
    /\ passState' = "aborted"
    /\ UNCHANGED <<kindIdx, crashed>>

\* Another exception (json.loads or the key lookup of _get_existing_values on
\* a response that is no member list, the lookup of a key the record of the
\* scope lacks) escapes the handler.
Crash ==
    /\ pc' = "idle"
    /\ crashed' = TRUE
    /\ passState' = "crashed"
    /\ UNCHANGED <<keyIdx, kindIdx, deferred>>

\* A _sync call returns: _synchronize makes its next call, or returns.
Return ==
    IF kindIdx < Len(KindOrder) /\ ~HasKey(config_data[DataIdx(keyIdx)].data, KindOrder[kindIdx + 1])
    THEN Crash
    ELSE IF kindIdx < Len(KindOrder)
    THEN /\ pc' = StartPc(KindOrder[kindIdx + 1])
         /\ kindIdx' = kindIdx + 1
         /\ UNCHANGED <<keyIdx, deferred, crashed, passState>>
    ELSE /\ pc' = "for_key"
         /\ keyIdx' = keyIdx + 1
         /\ passState' = "completed"
         /\ UNCHANGED <<kindIdx, deferred, crashed>>

NoRequest == UNCHANGED <<remote, requests, faults>>

(***************************************************************************)
(* _handle_synchronize_file                                                *)
(***************************************************************************)
\* self.charm.unit.is_leader()
is_leader_unchecked == TRUE
is_leader == leader

\* The handler is entered: the status gate, the leader gate, _read_file.
HandleSynchronizeFileLeaderFirst ==
    /\ pc = "idle"
    /\ runStart' = Len(requests)
    /\ crashed' = FALSE
    /\ IF ~is_leader
       THEN /\ deferred' = FALSE
            /\ UNCHANGED <<pc, keyIdx, config_data>>
       ELSE IF status # StatusUp
       THEN /\ deferred' = TRUE
            /\ UNCHANGED <<pc, keyIdx, config_data>>
       ELSE /\ deferred' = FALSE
            /\ config_data' = config
            /\ keyIdx' = 1
            /\ pc' = "for_key"
    /\ NoRequest
    /\ UNCHANGED <<env, retryVars, charmVars, relation_data, kindIdx, existing_values, existing_combinations,
                   idx, uidx, passVars, passState>>
HandleSynchronizeFile ==
    /\ pc = "idle"
    /\ runStart' = Len(requests)
    /\ crashed' = FALSE
    /\ IF status # StatusUp
       THEN /\ deferred' = TRUE
            /\ UNCHANGED <<pc, keyIdx, config_data>>
       ELSE /\ deferred' = FALSE
            /\ IF ~is_leader
               THEN UNCHANGED <<pc, keyIdx, config_data>>
               ELSE /\ config_data' = config
                    /\ keyIdx' = 1
                    /\ pc' = "for_key"
    /\ NoRequest
    /\ UNCHANGED <<env, retryVars, charmVars, relation_data, kindIdx, existing_values, existing_combinations,
                   idx, uidx, passVars, passState>>

\* An event the handler observes is emitted.
Deliver ==
    /\ runs < MaxRuns
    /\ runs' = runs + 1
    /\ HandleSynchronizeFile

\* _add_to_relations: the policy relations the key names
Propagates(key) == \E r \in policy_relations : key = RelationKey(r)

\* _add_to_relations(key, data): the databags afterwards
AddToRelationsSkipped(key, data) == relation_data
AddToRelations(key, data) ==
    [r \in RelationIds |->
        IF r \in policy_relations /\ key = RelationKey(r)
        THEN <<data>> ELSE relation_data[r]]

\* for key in config_data: data = ...; _add_to_relations; _synchronize
ForKey ==
    /\ pc = "for_key"
    /\ IF keyIdx > Len(config_data)
       THEN /\ pc' = "idle"
            /\ UNCHANGED <<relation_data, kindIdx, passVars, passState, crashed>>
       ELSE LET key == config_data[keyIdx].key
                data == config_data[DataIdx(keyIdx)].data
            IN /\ relation_data' = AddToRelations(key, data)
               /\ passWritten' = Propagates(key)
               /\ prevPass' = [desired |-> passDesired,
                               clean |-> passState = "completed" /\ AllOk(PassLog)]
               /\ passStart' = Len(requests)
               /\ passKey' = key
               /\ passDesired' = data
               /\ passUsers' = Names(vXUsers)
               /\ passGroups' = Names(vXGroups)
               /\ IF HasKey(data, KindOrder[1])
                  THEN /\ passState' = "running"
                       /\ kindIdx' = 1
                       /\ pc' = StartPc(KindOrder[1])
                       /\ UNCHANGED crashed
                  ELSE /\ passState' = "crashed"
                       /\ pc' = "idle"
                       /\ crashed' = TRUE
                       /\ UNCHANGED kindIdx
    /\ NoRequest
    /\ UNCHANGED <<env, retryVars, charmVars, config_data, keyIdx, existing_values, existing_combinations,
                   idx, uidx, deferred, runs, runStart>>

\* The record _synchronize of the running pass works on (the object it was
\* given, which _get_user_ids changes in place).
Data == config_data[DataIdx(keyIdx)].data

(***************************************************************************)
(* _sync(apply_values, member_type)                                        *)
(***************************************************************************)
\* existing_values = self._get_existing_values(member_type)
SyncGet ==
    /\ pc = "sync_get"
    /\ \E outcome \in Outcomes :
        /\ Get(KindOrder[kindIdx], outcome)
        /\ CASE outcome = "ok" ->
                   /\ existing_values' =
                          SortById(IF KindOrder[kindIdx] = "groups" THEN vXGroups ELSE vXUsers)
                   /\ idx' = 1
                   /\ Continue(IF DeletesSurplus(KindOrder[kindIdx])
                               THEN "delete_groups" ELSE "create")
             [] outcome = "fail" -> Raise /\ UNCHANGED <<existing_values, idx>>
             [] OTHER -> Crash /\ UNCHANGED <<existing_values, idx>>
    /\ UNCHANGED <<env, retryVars, charmVars, relation_data, config_data, existing_combinations, uidx, runs,
                   runStart, passVars>>

\* _delete_groups(existing_groups, apply_groups): one group of the loop
DeleteGroups ==
    /\ pc = "delete_groups"
    /\ IF idx > Len(existing_values)
       THEN /\ idx' = 1
            /\ Continue("create")
            /\ NoRequest
       ELSE LET group == existing_values[idx]
            IN /\ idx' = idx + 1
               /\ Continue("delete_groups")
               /\ IF IsProtected(group.name) \/ Matching(Data[KindOrder[kindIdx]], group.name)
                  THEN NoRequest
                  ELSE \E outcome \in Outcomes :
                          Delete(DeleteGroupsEndpoint, group.id, group.name, NoUser, outcome)
    /\ UNCHANGED <<env, retryVars, charmVars, relation_data, config_data, existing_values, existing_combinations,
                   uidx, runs, runStart, passVars>>

\* for value in apply_values: one value of the loop
Create ==
    /\ pc = "create"
    /\ LET apply_values == Data[KindOrder[kindIdx]]
       IN IF idx > Len(apply_values)
          THEN /\ Return
               /\ UNCHANGED idx
               /\ NoRequest
          ELSE LET apply_name == apply_values[idx].name
               IN /\ idx' = idx + 1
                  /\ Continue("create")
                  /\ IF Matching(existing_values, apply_name)
                     THEN NoRequest
                     ELSE \E outcome \in Outcomes :
                             Post(KindOrder[kindIdx], apply_name, NoUser, outcome)
    /\ UNCHANGED <<env, retryVars, charmVars, relation_data, config_data, existing_values, existing_combinations,
                   uidx, runs, runStart, passVars>>

(***************************************************************************)
(* _sync_memberships(apply_memberships)                                    *)
(***************************************************************************)
\* _get_existing_memberships
GetExistingMemberships ==
    /\ pc = "get_memberships"
    /\ \E outcome \in Outcomes :
        /\ Get("groupusers", outcome)
        /\ CASE outcome = "ok" ->
                   /\ existing_values' = SortById(vXGroupUsers)
                   /\ existing_combinations' = Combinations(vXGroupUsers)
                   /\ Continue("get_user_ids")
             [] outcome = "fail" ->
                   Raise /\ UNCHANGED <<existing_values, existing_combinations>>
             [] OTHER -> Crash /\ UNCHANGED <<existing_values, existing_combinations>>
    /\ UNCHANGED <<env, retryVars, charmVars, relation_data, config_data, idx, uidx, runs, runStart, passVars>>

\* _create_memberships: apply_memberships = self._get_user_ids(apply_memberships)
GetUserIdsStep ==
    /\ pc = "get_user_ids"
    /\ \E outcome \in Outcomes :
        /\ Get("users", outcome)
        /\ CASE outcome = "ok" ->
                   /\ config_data' =
                          [config_data EXCEPT ![DataIdx(keyIdx)].data.memberships =
                              GetUserIds(vXUsers, Data.memberships)]
                   /\ idx' = 1
                   /\ uidx' = 1
                   /\ Continue("create_memberships")
             [] outcome = "fail" -> Raise /\ UNCHANGED <<config_data, idx, uidx>>
             [] OTHER -> Crash /\ UNCHANGED <<config_data, idx, uidx>>
    /\ UNCHANGED <<env, retryVars, charmVars, relation_data, existing_values, existing_combinations, runs,
                   runStart, passVars>>

\* _create_memberships: one (groupname, user_id) of the two nested loops
CreateMemberships ==
    /\ pc = "create_memberships"
    /\ LET apply_memberships == Data.memberships
       IN IF idx > Len(apply_memberships)
          THEN /\ Continue("delete_memberships")
               /\ UNCHANGED <<idx, uidx, existing_combinations>>
               /\ NoRequest
          ELSE IF uidx > Len(apply_memberships[idx].users)
          THEN /\ idx' = idx + 1
               /\ uidx' = 1
               /\ Continue("create_memberships")
               /\ UNCHANGED existing_combinations
               /\ NoRequest
          ELSE LET groupname == apply_memberships[idx].groupname
                   user_id == apply_memberships[idx].users[uidx]
               IN /\ uidx' = uidx + 1
                  /\ UNCHANGED idx
                  /\ Continue("create_memberships")
                  /\ IF <<groupname, user_id>> \in existing_combinations
                     THEN /\ existing_combinations' =
                                 existing_combinations \ {<<groupname, user_id>>}
                          /\ NoRequest
                     ELSE /\ UNCHANGED existing_combinations
                          /\ \E outcome \in Outcomes :
                                Post("groupusers", groupname, user_id, outcome)
    /\ UNCHANGED <<env, retryVars, charmVars, relation_data, config_data, existing_values, runs, runStart,
                   passVars>>

\* delete_id = next(item["id"] for item in existing_memberships
\*                  if item["name"] == groupname and item["userId"] == user_id)
DeleteIdByUser(existing_memberships, groupname, user_id) ==
    existing_memberships[CHOOSE i \in DOMAIN existing_memberships :
        /\ existing_memberships[i].userId = user_id
        /\ \A j \in 1..(i - 1) : ~(existing_memberships[j].userId = user_id)].id
DeleteId(existing_memberships, groupname, user_id) ==
    existing_memberships[CHOOSE i \in DOMAIN existing_memberships :
        /\ existing_memberships[i].name = groupname
        /\ existing_memberships[i].userId = user_id
        /\ \A j \in 1..(i - 1) :
              ~(existing_memberships[j].name = groupname
                /\ existing_memberships[j].userId = user_id)].id

\* _delete_memberships(remaining_combinations, existing_memberships): one
\* combination of the set, in whatever order the set yields them
DeleteMemberships ==
    /\ pc = "delete_memberships"
    /\ IF existing_combinations = {}
       THEN /\ Return
            /\ UNCHANGED existing_combinations
            /\ NoRequest
       ELSE \E c \in existing_combinations :
               LET delete_id == DeleteId(existing_values, c[1], c[2])
               IN /\ existing_combinations' = existing_combinations \ {c}
                  /\ Continue("delete_memberships")
                  /\ \E outcome \in Outcomes :
                        Delete("groupusers", delete_id, c[1], c[2], outcome)
    /\ UNCHANGED <<env, retryVars, charmVars, relation_data, config_data, existing_values, idx, uidx, runs,
                   runStart, passVars>>

Next ==
    \/ Deliver
    \/ ForKey
    \/ SyncGet
    \/ DeleteGroups
    \/ Create
    \/ GetExistingMemberships
    \/ GetUserIdsStep
    \/ CreateMemberships
    \/ DeleteMemberships

Spec == Init /\ [][Next]_vars

(***************************************************************************)
(* The retry decorator of the three request functions, followed on its     *)
(* own: one wrapped call from its entry to the way its caller takes it.    *)
(***************************************************************************)
max_retries == 3
delay == 2
backoff == 2

WrappedRequests == {"_get_request", "_delete_request", "_create_request"}

\* What one call of requests.get/post/delete does: it returns a response
\* (named by its status code) or raises an exception of the requests library.
Responses == {"200", "204", "400"}
Exceptions == {"ConnectionError", "Timeout"}

\* current_delay *= backoff
NextDelayConstant(d) == d
NextDelay(d) == d * backoff

\* raise RangerServiceException(...) from e
WrappedReraised(e) == e
Wrapped(e) == "RangerServiceException"

\* The status code the caller logs success for; _get_existing_values checks
\* none and parses the body, which holds the list when the query succeeded.
Expected(f) == IF f = "_delete_request" THEN "204" ELSE "200"

InitRetry ==
    /\ RetryIdle
    /\ HandlerIdle
    /\ vXGroups = {}
    /\ vXUsers = {}
    /\ vXGroupUsers = {}
    /\ nextId = 9
    /\ leader = TRUE
    /\ status = StatusUp
    /\ status_name = StatusName(status)
    /\ CharmIdle
    /\ policy_relations = {1, 3}
    /\ config = <<Scope("relation_1", EmptyRecord)>>

handlerVars == <<remote, env, charmVars, relation_data, config_data, pc, keyIdx, kindIdx, existing_values,
                 existing_combinations, idx, uidx, deferred, crashed, runs, faults, requests,
                 runStart, passState, passVars>>

\* wrapper is entered
Wrapper ==
    /\ rpc = "idle"
    /\ \E f \in WrappedRequests : func' = f
    /\ current_delay' = delay
    /\ attempt' = 0
    /\ rpc' = "try"
    /\ UNCHANGED <<handlerVars, calls, slept, result, raisedExc, handled>>

\* one turn of "for attempt in range(max_retries)"
Attempt ==
    /\ rpc = "try"
    /\ IF attempt < max_retries
       THEN \E o \in Responses \cup Exceptions :
              /\ calls' = Append(calls, o)
              /\ IF o \in Responses
                 THEN /\ result' = <<o>>
                      /\ rpc' = "returned"
                      /\ UNCHANGED <<attempt, current_delay, slept, raisedExc>>
                 ELSE IF attempt < max_retries - 1
                 THEN /\ slept' = Append(slept, current_delay)
                      /\ current_delay' = NextDelay(current_delay)
                      /\ attempt' = attempt + 1
                      /\ UNCHANGED <<rpc, result, raisedExc>>
                 ELSE /\ raisedExc' = Wrapped(o)
                      /\ rpc' = "raised"
                      /\ UNCHANGED <<attempt, current_delay, slept, result>>
       ELSE \* return None
            /\ rpc' = "returned"
            /\ UNCHANGED <<attempt, current_delay, calls, slept, result, raisedExc>>
    /\ UNCHANGED <<handlerVars, func, handled>>

\* _create, _delete and _get_existing_values around the wrapped call
Handled ==
    /\ rpc \in {"returned", "raised"}
    /\ handled = ""
    /\ handled' = IF rpc = "raised"
                  THEN IF raisedExc = "RangerServiceException" THEN "fail" ELSE "escapes"
                  ELSE IF result = <<Expected(func)>> THEN "ok" ELSE "soft"
    /\ UNCHANGED <<handlerVars, func, rpc, attempt, current_delay, calls, slept, result, raisedExc>>

NextRetry ==
    \/ Wrapper
    \/ Attempt
    \/ Handled

SpecRetry == InitRetry /\ [][NextRetry]_vars

(***************************************************************************)
(* The handler with the re-emission of a deferred event: event.defer()     *)
(* makes the framework run the handler again with the same event, and the  *)
(* update-status hook brings the unit status up.                           *)
(***************************************************************************)
InitLive ==
    /\ RetryIdle
    /\ HandlerIdle
    /\ vXGroups = {[id |-> 1, name |-> "public"], [id |-> 3, name |-> "hr"]}
    /\ vXUsers = {Bob}
    /\ vXGroupUsers = {HrBob}
    /\ nextId = 9
    /\ leader = TRUE
    /\ status \in {StatusUp, "replanning application"}
    /\ status_name = StatusName(status)
    /\ CharmIdle
    /\ policy_relations = {1, 3}
    /\ config \in {<<Scope("relation_1", Finance)>>,
                   <<Scope("relation_1", NoMemberships)>>,
                   <<Scope("relation_1", Finance), Scope("relation_2", Hr)>>}

\* The deferred event is emitted again.
Redeliver ==
    /\ deferred
    /\ runs' = runs
    /\ HandleSynchronizeFile

\* _on_update_status finds the service up.
StatusBecomesUp ==
    /\ pc = "idle"
    /\ status # StatusUp
    /\ status' = StatusUp
    /\ status_name' = "Active"
    /\ UNCHANGED <<remote, leader, policy_relations, config, retryVars, charmVars, relation_data,
                   config_data, pc, keyIdx, kindIdx, existing_values, existing_combinations,
                   idx, uidx, deferred, crashed, runs, faults, requests, runStart, passState,
                   passVars>>

\* The steps of a handler that was entered: it runs to its end.
Steps ==
    \/ ForKey
    \/ SyncGet
    \/ DeleteGroups
    \/ Create
    \/ GetExistingMemberships
    \/ GetUserIdsStep
    \/ CreateMemberships
    \/ DeleteMemberships

NextLive ==
    \/ Deliver
    \/ Redeliver
    \/ StatusBecomesUp
    \/ Steps

SpecLive == InitLive /\ [][NextLive]_vars /\ WF_vars(Steps) /\ WF_vars(Redeliver)

(***************************************************************************)
(* The handlers of the charm. A handler runs to completion inside its      *)
(* event, so each is one step. State (self._state) keeps its fields in the *)
(* app databag of the peer relation.                                       *)
(***************************************************************************)
\* State.is_ready(): the peer relation exists.
is_ready == peer
\* getattr(self._state, name) is not None, and state.name = value.
Stored(st, name) == name \in DOMAIN st
StateSet(st, name, value) == DictSet(st, name, value)
\* bool(self._state.name) of a field that holds a dict
Truthy(st, name) == Stored(st, name) /\ DOMAIN st[name] # {}

\* What a call did: the exception it raised ("" when it returned), the text
\* of the exception, the peer state it left.
Raised(exception, message, st) == [raised |-> exception, message |-> message, state |-> st]
Passed(st) == Raised("", "", st)

\* PostgresRelationHandler.validate reads self.charm.state, an attribute the
\* charm does not have (its State is self._state).
PostgresValidate(st) ==
    Raised("AttributeError", "'RangerK8SCharm' object has no attribute 'state'", st)

\* LDAPRelationHandler.validate
LdapValidate(st, cfg) ==
    IF ~Truthy(st, "ldap") /\ \E value \in RELATION_VALUES : cfg.sync[value] = None
    THEN Raised("ValueError", "Add an LDAP relation or update config values.", st)
    ELSE Passed(st)

\* _validate_password(getattr(self._state, state_key), config_key, state_key)
ValidatePasswordOverwrites(st, cfg, config_key, state_key) ==
    IF ~Stored(st, state_key) \/ st[state_key] # cfg[state_key]
    THEN Passed(IF is_leader THEN StateSet(st, state_key, cfg[state_key]) ELSE st)
    ELSE Passed(st)
ValidatePassword(st, cfg, config_key, state_key) ==
    IF ~Stored(st, state_key)
    THEN Passed(IF is_leader THEN StateSet(st, state_key, cfg[state_key]) ELSE st)
    ELSE IF st[state_key] # cfg[state_key]
         THEN Raised("ValueError",
                     "value of '" \o config_key
                        \o "' config cannot be changed after deployment. Value should be "
                        \o st[state_key], st)
         ELSE Passed(st)

\* validate
Validate(st, cfg) ==
    IF ~is_ready THEN Raised("ValueError", "peer relation not ready", st)
    ELSE LET charm_function == cfg.charm_function
             relation == IF charm_function = "admin" THEN PostgresValidate(st)
                         ELSE LdapValidate(st, cfg)
         IN  IF relation.raised # "" THEN relation
             ELSE IF Truthy(st, "opensearch") /\ charm_function # "admin"
                  THEN Raised("ValueError", "Only Ranger admin can relate to OpenSearch.", st)
                  ELSE LET admin == ValidatePassword(st, cfg, "ranger-admin-password",
                                                     "ranger_admin_password")
                       IN  IF admin.raised # "" THEN admin
                           ELSE ValidatePassword(admin.state, cfg, "ranger-usersync-password",
                                                 "ranger_usersync_password")

\* What a _configure_ranger_* call did: as Raised, with the entrypoint and
\* the context it returned and its calls of the container.
Configured(exception, st, command, context, done) ==
    [raised |-> exception, state |-> st, command |-> command, context |-> context,
     calls |-> done]

\* value = ldap.get(key) or self.config[key], taken the other way round
SyncValueConfigFirst(ldap, cfg, key) ==
    IF key \in RELATION_VALUES THEN Or(cfg.sync[key], DictGet(ldap, key)) ELSE cfg.sync[key]

\* the value _configure_ranger_usersync gives a "sync" key
SyncValue(ldap, cfg, key) ==
    IF key \in RELATION_VALUES THEN Or(DictGet(ldap, key), cfg.sync[key]) ELSE cfg.sync[key]

\* _configure_ranger_usersync
ConfigureRangerUsersync(st, cfg) ==
    LET ldap == IF Truthy(st, "ldap") THEN st["ldap"] ELSE EmptyDict
        context == [K \in {Upper(key) : key \in SyncKeys}
                            \cup {"POLICY_MGR_URL", "RANGER_USERSYNC_PWD"} |->
                       IF K = "POLICY_MGR_URL" THEN cfg.policy_mgr_url
                       ELSE IF K = "RANGER_USERSYNC_PWD" THEN cfg.ranger_usersync_password
                       ELSE SyncValue(ldap, cfg, CHOOSE key \in SyncKeys : Upper(key) = K)]
    IN  Configured("", st, USERSYNC_ENTRYPOINT, context,
                   <<"push /usr/lib/ranger/usersync/install.properties">>)

\* OpensearchRelationHandler.update_certificates: its calls of the container
UpdateCertificates(st, connect, relation_broken) ==
    IF ~connect THEN <<>>
    ELSE IF ~relation_broken /\ Stored(st, "opensearch_certificate")
         THEN <<"push /opensearch.crt", "exec keytool -importcert">>
         ELSE <<"exec keytool -delete">>

\* _configure_ranger_admin; container.exists("/opensearch.crt") is taken to
\* hold when a certificate is stored: the relation handler pushes the file
\* right after it stores the certificate
ConfigureRangerAdmin(st, cfg) ==
    LET st1 == IF is_leader
               THEN StateSet(st, "truststore_pwd",
                             IF Stored(st, "truststore_pwd") THEN st["truststore_pwd"]
                             ELSE "generated")
               ELSE st
        truststore_pwd == DictGet(st1, "truststore_pwd")
        opensearch == IF Truthy(st1, "opensearch") THEN st1["opensearch"] ELSE EmptyDict
        exec == <<"exec keytool">>
                   \o (IF DictGet(opensearch, "is_enabled") = "True"
                          /\ ~Stored(st1, "opensearch_certificate")
                       THEN UpdateCertificates(st1, TRUE, FALSE) ELSE <<>>)
    IN  IF ~Stored(st1, "database_connection")
        THEN Configured("TypeError", st1, "", EmptyDict, exec)
        ELSE LET db_conn == st1["database_connection"]
                 context == [DB_NAME |-> db_conn.dbname,
                             DB_HOST |-> db_conn.host,
                             DB_PORT |-> db_conn.port,
                             DB_USER |-> db_conn.user,
                             DB_PWD |-> db_conn.password,
                             OPENSEARCH_INDEX |-> DictGet(opensearch, "index"),
                             OPENSEARCH_HOST |-> DictGet(opensearch, "host"),
                             OPENSEARCH_PORT |-> DictGet(opensearch, "port"),
                             OPENSEARCH_PWD |-> DictGet(opensearch, "password"),
                             OPENSEARCH_USER |-> DictGet(opensearch, "username"),
                             OPENSEARCH_ENABLED |-> DictGet(opensearch, "is_enabled"),
                             RANGER_ADMIN_PWD |-> cfg.ranger_admin_password,
                             JAVA_OPTS |-> "-Duser.timezone=UTC0 -Djavax.net.ssl.trustStorePassword="
                                             \o truststore_pwd,
                             RANGER_USERSYNC_PWD |-> cfg.ranger_usersync_password]
             IN  Configured("", st1, ADMIN_ENTRYPOINT, context,
                            exec \o <<"push /usr/lib/ranger/admin/install.properties">>)

SetStatus(name, message) == status_name' = name /\ status' = message
\* the handler returns or raises: what it leaves behind
Leaves(st, exception, defer, done) ==
    /\ state' = st
    /\ escaped' = exception
    /\ deferred' = defer
    /\ container_calls' = done
\* the handler returns at once
Returns == Leaves(state, "", FALSE, <<>>) /\ UNCHANGED <<status, status_name, plan>>

\* update(event), entered with the peer state st, the configuration cfg, the
\* answer of container.can_connect() and the unit status (name, message),
\* after the handler made the calls "before" of the container
Update(st, cfg, connect, name, message, before) ==
    LET valid == Validate(st, cfg)
        charm_function == cfg.charm_function
        configured == IF charm_function = "usersync"
                      THEN ConfigureRangerUsersync(valid.state, cfg)
                      ELSE ConfigureRangerAdmin(valid.state, cfg)
    IN  IF valid.raised = "ValueError"
        THEN /\ SetStatus("Blocked", valid.message)
             /\ Leaves(valid.state, "", FALSE, before)
             /\ UNCHANGED plan
        ELSE IF valid.raised # ""
        THEN /\ SetStatus(name, message)
             /\ Leaves(valid.state, valid.raised, FALSE, before)
             /\ UNCHANGED plan
        ELSE IF ~connect
        THEN /\ SetStatus(name, message)
             /\ Leaves(valid.state, "", TRUE, before)
             /\ UNCHANGED plan
        ELSE IF configured.raised # ""
        THEN /\ SetStatus(name, message)
             /\ Leaves(configured.state, configured.raised, FALSE, before \o configured.calls)
             /\ UNCHANGED plan
        ELSE /\ plan' = DictSet(plan, "ranger",
                                [summary |-> "ranger " \o charm_function,
                                 command |-> configured.command,
                                 startup |-> "enabled",
                                 override |-> "replace",
                                 environment |-> configured.context])
             /\ Leaves(configured.state, "", FALSE,
                       before \o configured.calls \o <<"add_layer", "replan">>)
             /\ SetStatus("Maintenance", "replanning application")

\* What the handlers of the charm leave alone: the synchronisation handler
\* and the directory, and but for the handlers that say otherwise whether
\* the OpenSearch relation is there and the data of the LDAP relation.
groupsVars == <<remote, relation_data, config, config_data, pc, keyIdx,
                kindIdx, existing_values, existing_combinations, idx, uidx, crashed, runs,
                faults, requests, runStart, passState, passVars, retryVars>>
syncVars == <<groupsVars, opensearch_relation, ldap_data>>

\* The peer relation is established.
PeerRelationCreated ==
    /\ ~peer
    /\ peer' = TRUE
    /\ last_event' = "peer-relation-created"
    /\ Returns
    /\ UNCHANGED <<syncVars, policy_relations, leader, charm_config, can_connect, check_up, policy_data,
                   ranger_services>>

\* _on_peer_relation_changed
PeerRelationChanged ==
    /\ peer
    /\ last_event' = "peer-relation-changed"
    /\ IF is_leader THEN Returns
       ELSE Update(state, charm_config, can_connect, "Waiting", "configuring ranger-k8s", <<>>)
    /\ UNCHANGED <<syncVars, policy_relations, leader, peer, charm_config, can_connect, check_up, policy_data,
                   ranger_services>>

\* The container starts: _on_ranger_pebble_ready
PebbleReady ==
    /\ ~can_connect
    /\ can_connect' = TRUE
    /\ last_event' = "ranger-pebble-ready"
    /\ Update(state, charm_config, TRUE, status_name, status, <<>>)
    /\ UNCHANGED <<syncVars, policy_relations, leader, peer, charm_config, check_up, policy_data,
                   ranger_services>>

\* _on_config_changed
ConfigChanged ==
    /\ \E cfg \in CharmConfigs :
          /\ cfg # charm_config
          /\ charm_config' = cfg
          /\ Update(state, cfg, can_connect, status_name, status, <<>>)
    /\ last_event' = "config-changed"
    /\ UNCHANGED <<syncVars, policy_relations, leader, peer, can_connect, check_up, policy_data,
                   ranger_services>>

\* PostgresRelationHandler._on_database_changed: its first statement reads
\* self.charm.state, an attribute the charm does not have.
DatabaseChanged ==
    /\ last_event' = "database-changed"
    /\ Leaves(state, "AttributeError", FALSE, <<>>)
    /\ UNCHANGED <<status, status_name, plan>>
    /\ UNCHANGED <<syncVars, policy_relations, leader, peer, charm_config, can_connect, check_up, policy_data,
                   ranger_services>>

\* _on_update_status, the pebble check "up" reporting UP or not
UpdateStatus ==
    /\ \E up \in BOOLEAN :
          /\ check_up' = up
          /\ IF ~is_ready THEN UNCHANGED <<status, status_name>>
             ELSE IF charm_config.charm_function = "usersync"
                  THEN SetStatus("Active", "Status check: UP")
                  ELSE IF ~Stored(state, "database_connection")
                       THEN UNCHANGED <<status, status_name>>
                       ELSE IF ~up THEN SetStatus("Maintenance", "Status check: DOWN")
                            ELSE SetStatus("Active", "Status check: UP")
    /\ last_event' = "update-status"
    /\ Leaves(state, "", FALSE, <<>>)
    /\ UNCHANGED plan
    /\ UNCHANGED <<syncVars, policy_relations, leader, peer, charm_config, can_connect, policy_data,
                   ranger_services>>

\* The application data of a LDAP relation: admin_password, base_dn, ldap_url.
LdapData ==
    {[admin_password |-> "huedw7uiedw7", base_dn |-> "dc=canonical,dc=dev,dc=com",
      ldap_url |-> "ldap://comsys-openldap-k8s:389"],
     [admin_password |-> None, base_dn |-> "dc=canonical,dc=dev,dc=com",
      ldap_url |-> "ldap://comsys-openldap-k8s:389"]}

\* The values LDAPRelationHandler._on_relation_changed stores.
LdapValues(event_data) ==
    [sync_ldap_bind_password |-> event_data.admin_password,
     sync_ldap_bind_dn |-> "cn=admin," \o event_data.base_dn,
     sync_ldap_search_base |-> event_data.base_dn,
     sync_ldap_user_search_base |-> event_data.base_dn,
     sync_group_search_base |-> event_data.base_dn,
     sync_ldap_url |-> event_data.ldap_url]

\* LDAPRelationHandler._on_relation_created
LdapRelationCreated ==
    /\ last_event' = "ldap-relation-created"
    /\ ldap_data' = IF ~is_leader \/ charm_config.charm_function # "usersync" THEN ldap_data
                    ELSE DictSet(ldap_data, "user", "admin")
    /\ Returns
    /\ UNCHANGED <<groupsVars, opensearch_relation, policy_relations, leader, peer, charm_config,
                   can_connect, check_up, policy_data, ranger_services>>

\* LDAPRelationHandler._on_relation_changed; the handlers of the LDAP relation
\* write to the peer state and are followed where the peer relation exists
LdapRelationChanged ==
    /\ peer
    /\ last_event' = "ldap-relation-changed"
    /\ \E event_data \in LdapData :
          IF ~is_leader \/ charm_config.charm_function # "usersync" THEN Returns
          ELSE IF ~can_connect
          THEN Leaves(state, "", TRUE, <<>>) /\ UNCHANGED <<status, status_name, plan>>
          ELSE Update(StateSet(state, "ldap", LdapValues(event_data)), charm_config,
                      can_connect, status_name, status, <<>>)
    /\ UNCHANGED <<syncVars, policy_relations, leader, peer, charm_config, can_connect, check_up, policy_data,
                   ranger_services>>

\* LDAPRelationHandler._on_relation_broken keeping what it stored
LdapRelationBrokenKeeps ==
    /\ peer
    /\ last_event' = "ldap-relation-broken"
    /\ IF ~is_leader \/ charm_config.charm_function # "usersync" THEN Returns
       ELSE IF ~can_connect
       THEN Leaves(state, "", TRUE, <<>>) /\ UNCHANGED <<status, status_name, plan>>
       ELSE Update(state, charm_config, can_connect, status_name, status, <<>>)
    /\ UNCHANGED <<syncVars, policy_relations, leader, peer, charm_config, can_connect, check_up, policy_data,
                   ranger_services>>

\* LDAPRelationHandler._on_relation_broken
LdapRelationBroken ==
    /\ peer
    /\ last_event' = "ldap-relation-broken"
    /\ IF ~is_leader \/ charm_config.charm_function # "usersync" THEN Returns
       ELSE IF ~can_connect
       THEN Leaves(state, "", TRUE, <<>>) /\ UNCHANGED <<status, status_name, plan>>
       ELSE Update(StateSet(state, "ldap", EmptyDict), charm_config, can_connect,
                   status_name, status, <<>>)
    /\ UNCHANGED <<syncVars, policy_relations, leader, peer, charm_config, can_connect, check_up, policy_data,
                   ranger_services>>

\* get_conn_values(event): the connection values of the relation to
\* OpenSearch; True and False are written as Python prints them
OpensearchConnValues ==
    [index |-> "ranger_audits", host |-> "opensearch-host", port |-> "port",
     password |-> "testpassword", username |-> "testuser", is_enabled |-> "True"]

\* OpensearchRelationHandler._on_index_created: the relation is there, and
\* add_opensearch_schema reaches OpenSearch or raises the RequestException
OpensearchIndexCreated ==
    /\ opensearch_relation' = TRUE
    /\ last_event' = "opensearch-index-created"
    /\ \E fault \in {"", "RequestException"} :
          IF ~is_ready
          THEN Leaves(state, "", TRUE, <<>>) /\ UNCHANGED <<status, status_name, plan>>
          ELSE IF ~is_leader THEN Returns
          ELSE IF fault # ""
          THEN /\ SetStatus("Waiting", "handling opensearch change")
               /\ Leaves(state, fault, FALSE, <<>>)
               /\ UNCHANGED plan
          ELSE LET certificate == StateSet(state, "opensearch_certificate",
                                           "-----BEGIN CERTIFICATE-----")
               IN  Update(StateSet(certificate, "opensearch", OpensearchConnValues),
                          charm_config, can_connect, "Waiting", "handling opensearch change",
                          UpdateCertificates(certificate, can_connect, FALSE))
    /\ UNCHANGED <<groupsVars, ldap_data, policy_relations, leader, peer, charm_config, can_connect,
                   check_up, policy_data, ranger_services>>

\* OpensearchRelationHandler.update(event, True) leaving what was stored
OpensearchRelationBrokenKeeps ==
    /\ opensearch_relation
    /\ opensearch_relation' = FALSE
    /\ last_event' = "opensearch-relation-broken"
    /\ IF ~is_ready \/ ~is_leader THEN Returns
       ELSE Update(state, charm_config, can_connect, status_name, status,
                   UpdateCertificates(state, can_connect, TRUE))
    /\ UNCHANGED <<groupsVars, ldap_data, policy_relations, leader, peer, charm_config, can_connect,
                   check_up, policy_data, ranger_services>>

\* OpensearchRelationHandler._on_relation_broken
OpensearchRelationBroken ==
    /\ opensearch_relation
    /\ opensearch_relation' = FALSE
    /\ last_event' = "opensearch-relation-broken"
    /\ IF ~is_ready \/ ~is_leader THEN Returns
       ELSE Update(StateSet(state, "opensearch", [is_enabled |-> "False"]), charm_config,
                   can_connect, status_name, status,
                   UpdateCertificates(state, can_connect, TRUE))
    /\ UNCHANGED <<groupsVars, ldap_data, policy_relations, leader, peer, charm_config, can_connect,
                   check_up, policy_data, ranger_services>>

InitCharm ==
    /\ RetryIdle
    /\ HandlerIdle
    /\ vXGroups = {}
    /\ vXUsers = {}
    /\ vXGroupUsers = {}
    /\ nextId = 9
    /\ leader \in BOOLEAN
    /\ status = "installing Ranger"
    /\ status_name = "Maintenance"
    /\ policy_relations = {1, 3}
    /\ config = <<>>
    /\ peer = FALSE
    /\ state = EmptyDict
    /\ charm_config \in CharmConfigs
    /\ can_connect \in BOOLEAN
    /\ plan = EmptyDict
    /\ container_calls = <<>>
    /\ check_up = FALSE
    /\ escaped = ""
    /\ policy_data = [r \in RelationIds |-> EmptyDict]
    /\ ranger_services = {}
    /\ last_event = ""
    /\ opensearch_relation = FALSE
    /\ ldap_data = EmptyDict

NextCharm ==
    \/ PeerRelationCreated
    \/ PeerRelationChanged
    \/ PebbleReady
    \/ ConfigChanged
    \/ DatabaseChanged
    \/ UpdateStatus
    \/ LdapRelationChanged
    \/ LdapRelationBroken

SpecCharm == InitCharm /\ [][NextCharm]_vars

(***************************************************************************)
(* The "policy" relation (src/src/relations/provider.py): a Ranger service *)
(* per related application, created on relation-changed and deleted on     *)
(* relation-broken unless somebody gave it policies of their own.          *)
(***************************************************************************)
\* f"relation_id_{relation_id}"
RelationUser(r) == IF r = 1 THEN "relation_id_1"
                   ELSE IF r = 2 THEN "relation_id_2" ELSE "relation_id_3"

\* event.relation.data[event.app] of a related application
RemoteData(r) == [name |-> service_name(r), type |-> "trino"]

\* The policies Ranger gives a new service: the default ones, each with one
\* item for the user of the service.
DefaultPolicies(username) ==
    {[name |-> n, policyItems |-> {[users |-> {username}]}] : n \in DEFAULT_POLICIES}

\* What the administrators of Ranger may turn the policies of a service into.
PolicyEdits(username) ==
    LET all == [name |-> "all - catalog", policyItems |-> {[users |-> {username}]}]
        rest == DefaultPolicies(username) \ {all}
    IN  {DefaultPolicies(username),
         {},
         DefaultPolicies(username)
            \cup {[name |-> "tpch - catalog, schema", policyItems |-> {[users |-> {username}]}]},
         rest \cup {[all EXCEPT !.policyItems = {[users |-> {username, "custom_user"}]}]},
         rest \cup {[all EXCEPT !.policyItems = {[users |-> {username}],
                                                 [users |-> {"custom_user"}]}]}}

\* created_service.id: Ranger hands out an id it has not handed out before.
NewServiceId ==
    LET recorded == IF Stored(state, "services")
                    THEN {state["services"][k] : k \in DOMAIN state["services"]} ELSE {}
        ids == {s.id : s \in ranger_services} \cup recorded \cup {0}
    IN  1 + CHOOSE i \in ids : \A j \in ids : j <= i

\* _has_custom_policies looking at the names only
HasCustomPoliciesByName(policies, relation_id) ==
    \E policy \in policies : policy.name \notin DEFAULT_POLICIES

\* _has_custom_policies
HasCustomPolicies(policies, relation_id) ==
    \E policy \in policies :
        \/ policy.name \notin DEFAULT_POLICIES
        \/ \E item \in policy.policyItems : RelationUser(relation_id) \notin item.users

\* _delete_ranger_service: the services of Ranger after it
DeleteRangerService(service_id, relation_id) ==
    IF ~\E s \in ranger_services : s.id = service_id THEN ranger_services
    ELSE LET retrieved_service == CHOOSE s \in ranger_services : s.id = service_id
         IN  IF HasCustomPolicies(retrieved_service.policies, relation_id)
             THEN ranger_services
             ELSE ranger_services \ {retrieved_service}

\* _set_policy_manager without the name of the service
SetPolicyManagerUrlOnly(r, data) ==
    DictSet(policy_data[r], "policy_manager_url", charm_config.policy_mgr_url)

\* _set_policy_manager: the app databag of the relation after it
SetPolicyManager(r, data) ==
    DictSet(DictSet(policy_data[r], "policy_manager_url", charm_config.policy_mgr_url),
            "service_name", data.name)

policyFrame == <<syncVars, leader, peer, charm_config, can_connect, check_up, plan>>

\* RangerProvider._on_relation_changed, for the relation r
PolicyRelationChanged ==
    \E r \in policy_relations, fault \in {"", "RangerServiceException", "Exception"},
       lost \in BOOLEAN :
      \E data \in {EmptyDict, RemoteData(r)} :
        /\ peer
        /\ last_event' = "policy-relation-changed:" \o RelationKey(r)
                             \o (IF DOMAIN data = {} THEN ":no data" ELSE "")
        /\ IF ~is_leader \/ DOMAIN data = {}
           THEN /\ Leaves(state, "", FALSE, <<>>)
                /\ UNCHANGED <<status, status_name, ranger_services, policy_data>>
           ELSE IF fault = "RangerServiceException"
           THEN /\ SetStatus("Maintenance", "Adding policy relation")
                /\ Leaves(state, "", TRUE, <<>>)
                /\ UNCHANGED <<ranger_services, policy_data>>
           ELSE IF fault = "Exception"
           THEN /\ SetStatus("Blocked", "Unable to create service")
                /\ Leaves(state, "", FALSE, <<>>)
                /\ UNCHANGED <<ranger_services, policy_data>>
           ELSE IF \E s \in ranger_services : s.name = data.name
           THEN /\ SetStatus("Maintenance", "Adding policy relation")
                /\ Leaves(state, "", FALSE, <<>>)
                /\ UNCHANGED <<ranger_services, policy_data>>
           ELSE IF lost
           THEN /\ SetStatus("Maintenance", "Adding policy relation")
                /\ Leaves(state, "", TRUE, <<>>)
                /\ UNCHANGED <<ranger_services, policy_data>>
           ELSE LET created_service ==
                        [id |-> NewServiceId, name |-> data.name,
                         username |-> RelationUser(r),
                         policies |-> DefaultPolicies(RelationUser(r))]
                    services == IF Stored(state, "services") THEN state["services"]
                                ELSE EmptyDict
                IN  /\ ranger_services' = ranger_services \cup {created_service}
                    /\ Leaves(StateSet(state, "services",
                                       DictSet(services, RelationKey(r), created_service.id)),
                              "", FALSE, <<>>)
                    /\ policy_data' = [policy_data EXCEPT ![r] = SetPolicyManager(r, data)]
                    /\ SetStatus("Active", "")
        /\ UNCHANGED <<policyFrame, policy_relations>>

\* RangerProvider._on_relation_broken, for the relation r, which is gone
\* once the event has been handled
PolicyRelationBroken ==
    \E r \in policy_relations, fault \in {"", "RangerServiceException", "Exception"} :
        /\ peer
        /\ last_event' = "policy-relation-broken:" \o RelationKey(r)
        /\ policy_relations' = policy_relations \ {r}
        /\ IF ~is_leader
           THEN Leaves(state, "", FALSE, <<>>) /\ UNCHANGED <<status, status_name, ranger_services>>
           ELSE IF ~Stored(state, "services")
           THEN /\ Leaves(state, "TypeError", FALSE, <<>>)
                /\ UNCHANGED <<status, status_name, ranger_services>>
           ELSE IF RelationKey(r) \notin DOMAIN state["services"]
           THEN Leaves(state, "", FALSE, <<>>) /\ UNCHANGED <<status, status_name, ranger_services>>
           ELSE IF fault = "RangerServiceException"
           THEN Leaves(state, "", FALSE, <<>>) /\ UNCHANGED <<status, status_name, ranger_services>>
           ELSE IF fault = "Exception"
           THEN /\ SetStatus("Blocked", "Unable to delete service")
                /\ Leaves(state, "", FALSE, <<>>)
                /\ UNCHANGED ranger_services
           ELSE /\ ranger_services' =
                       DeleteRangerService(state["services"][RelationKey(r)], r)
                /\ Leaves(StateSet(state, "services",
                                   [k \in DOMAIN state["services"] \ {RelationKey(r)} |->
                                       state["services"][k]]),
                          "", FALSE, <<>>)
                /\ UNCHANGED <<status, status_name>>
        /\ UNCHANGED <<policyFrame, policy_data>>

\* An administrator of Ranger edits the policies of a service.
PolicyEdited ==
    \E s \in ranger_services : \E policies \in PolicyEdits(s.username) :
        /\ policies # s.policies
        /\ ranger_services' = (ranger_services \ {s}) \cup {[s EXCEPT !.policies = policies]}
        /\ UNCHANGED <<policyFrame, policy_relations, policy_data, state, status, status_name,
                       deferred, escaped, container_calls, last_event>>

InitPolicy ==
    /\ RetryIdle
    /\ HandlerIdle
    /\ vXGroups = {}
    /\ vXUsers = {}
    /\ vXGroupUsers = {}
    /\ nextId = 9
    /\ leader \in BOOLEAN
    /\ status = "installing Ranger"
    /\ status_name = "Maintenance"
    /\ policy_relations = {1, 3}
    /\ config = <<>>
    /\ peer = TRUE
    /\ state = EmptyDict
    /\ charm_config = DefaultConfig
    /\ can_connect = TRUE
    /\ plan = EmptyDict
    /\ container_calls = <<>>
    /\ check_up = FALSE
    /\ escaped = ""
    /\ policy_data = [r \in RelationIds |-> EmptyDict]
    /\ ranger_services = {}
    /\ last_event = ""
    /\ opensearch_relation = FALSE
    /\ ldap_data = EmptyDict

NextPolicy ==
    \/ PolicyRelationChanged
    \/ PolicyRelationBroken
    \/ PolicyEdited

SpecPolicy == InitPolicy /\ [][NextPolicy]_vars

(***************************************************************************)
(* One unit with the handlers of its relations: peer, database, LDAP,      *)
(* OpenSearch and policy, under a configuration that stays as deployed.    *)
(***************************************************************************)
\* The configurations a unit is deployed with: an admin, a usersync with its
\* LDAP values in the configuration and one without.
UnitConfigs ==
    {CharmConfig(f, "rangerR0cks!", "rangerR0cks!", s) :
        f \in {"admin", "usersync"}, s \in {SyncDefaults, SyncConfigured}}
      \ {CharmConfig("admin", "rangerR0cks!", "rangerR0cks!", SyncConfigured)}

InitUnit ==
    /\ RetryIdle
    /\ HandlerIdle
    /\ vXGroups = {}
    /\ vXUsers = {}
    /\ vXGroupUsers = {}
    /\ nextId = 9
    /\ leader \in BOOLEAN
    /\ status = "installing Ranger"
    /\ status_name = "Maintenance"
    /\ policy_relations = {1}
    /\ config = <<>>
    /\ peer = FALSE
    /\ state = EmptyDict
    /\ charm_config \in UnitConfigs
    /\ can_connect \in BOOLEAN
    /\ plan = EmptyDict
    /\ container_calls = <<>>
    /\ check_up = FALSE
    /\ escaped = ""
    /\ policy_data = [r \in RelationIds |-> EmptyDict]
    /\ ranger_services = {}
    /\ last_event = ""
    /\ opensearch_relation = FALSE
    /\ ldap_data = EmptyDict

NextUnit ==
    \/ PeerRelationCreated
    \/ PeerRelationChanged
    \/ PebbleReady
    \/ DatabaseChanged
    \/ UpdateStatus
    \/ LdapRelationCreated
    \/ LdapRelationChanged
    \/ LdapRelationBroken
    \/ OpensearchIndexCreated
    \/ OpensearchRelationBroken
    \/ PolicyRelationChanged
    \/ PolicyRelationBroken

SpecUnit == InitUnit /\ [][NextUnit]_vars

(***************************************************************************)
(* Properties.                                                             *)
(***************************************************************************)
IsChange(r) == r.op \in {"POST", "DELETE"}
NamesOf(values) == {values[i].name : i \in DOMAIN values}

\* C1 -- Idempotence: a _synchronize call that follows a call with the same
\* desired record in which every request succeeded, and whose own requests
\* all succeed, sends no create request and no delete request.
C1_Idempotence ==
    (prevPass.clean /\ prevPass.desired = passDesired /\ AllOk(PassLog))
        => \A i \in DOMAIN PassLog : ~IsChange(PassLog[i])

\* The (groupname, userId) pairs the desired memberships resolve to, given
\* the remote users.
ResolvedPairs(memberships, users) ==
    UNION {{<<memberships[i].groupname,
              IF \E u \in users : u.name = memberships[i].users[j].name
              THEN Id((CHOOSE u \in users : u.name = memberships[i].users[j].name).id)
              ELSE memberships[i].users[j]>> :
               j \in DOMAIN memberships[i].users} :
           i \in DOMAIN memberships}

\* C2 -- Convergence: after a _synchronize call that completed with every
\* request succeeding, the remote groups are the desired groups plus the
\* system groups that were there, the remote users are the users that were
\* there plus the desired users, and the remote memberships are exactly the
\* resolved desired memberships.
C2_Convergence ==
    (passState = "completed" /\ AllOk(PassLog)) =>
        /\ Names(vXGroups) = NamesOf(passDesired.groups) \cup (passGroups \cap SYSTEM_GROUPS)
        /\ Names(vXUsers) = passUsers \cup NamesOf(passDesired.users)
        /\ Combinations(vXGroupUsers) = ResolvedPairs(passDesired.memberships, vXUsers)

\* A completed pass without a failure that deleted a group and a membership
\* and created a group, a user and a membership.
C2_Witness ==
    /\ passState = "completed"
    /\ AllOk(PassLog)
    /\ \A op \in {"POST", "DELETE"} : \A mt \in {"groups", "groupusers"} :
          \E i \in DOMAIN PassLog : PassLog[i].op = op /\ PassLog[i].member_type = mt
    /\ \E i \in DOMAIN PassLog : PassLog[i].op = "POST" /\ PassLog[i].member_type = "users"

\* C3 -- Protected groups: no delete request is ever sent for a group whose
\* name is in SYSTEM_GROUPS.
C3_ProtectedGroups ==
    \A i \in DOMAIN requests :
        ~(/\ requests[i].op = "DELETE"
          /\ requests[i].member_type = "groups"
          /\ requests[i].name \in SYSTEM_GROUPS)

\* The loop of _delete_groups is over: it met a system group that is not
\* desired and deleted another group.
C3_Witness ==
    /\ pc = "create"
    /\ KindOrder[kindIdx] = "groups"
    /\ \E i \in DOMAIN existing_values :
          /\ existing_values[i].name \in SYSTEM_GROUPS
          /\ ~Matching(passDesired.groups, existing_values[i].name)
    /\ \E i \in DOMAIN PassLog :
          PassLog[i].op = "DELETE" /\ PassLog[i].outcome = "ok"

\* C4 -- Users are never deleted: no delete request is ever sent to the users
\* endpoint, and the users that were there when a pass began stay.
C4_UsersNeverDeleted ==
    /\ \A i \in DOMAIN requests :
          ~(requests[i].op = "DELETE" /\ requests[i].member_type = "users")
    /\ passUsers \subseteq Names(vXUsers)

\* A pass is over that found a remote user who is not desired, and that
\* deleted a group and a membership.
C4_Witness ==
    /\ passState = "completed"
    /\ \E u \in passUsers : u \notin NamesOf(passDesired.users)
    /\ \A mt \in {"groups", "groupusers"} :
          \E i \in DOMAIN PassLog :
             /\ PassLog[i].op = "DELETE"
             /\ PassLog[i].member_type = mt
             /\ PassLog[i].outcome = "ok"

\* C5 -- Protected memberships: no delete request is ever sent for a
\* membership whose group name is in SYSTEM_GROUPS.
C5_ProtectedMemberships ==
    \A i \in DOMAIN requests :
        ~(/\ requests[i].op = "DELETE"
          /\ requests[i].member_type = "groupusers"
          /\ requests[i].name \in SYSTEM_GROUPS)

KindRank(member_type) ==
    CASE member_type = "groups" -> 1
      [] member_type = "users" -> 2
      [] OTHER -> 3

\* C6 -- Kind order: among the create and delete requests of one pass, those
\* for groups come before those for users, which come before those for
\* memberships.
C6_KindOrder ==
    \A i, j \in DOMAIN PassLog :
        (i < j /\ IsChange(PassLog[i]) /\ IsChange(PassLog[j]))
            => KindRank(PassLog[i].member_type) <= KindRank(PassLog[j].member_type)

\* A pass created a group, then a user, then a membership of the two.
C6_Witness ==
    \E i, j, k \in DOMAIN PassLog :
        /\ i < j /\ j < k
        /\ PassLog[i].op = "POST" /\ PassLog[i].member_type = "groups"
        /\ PassLog[j].op = "POST" /\ PassLog[j].member_type = "users"
        /\ PassLog[k].op = "POST" /\ PassLog[k].member_type = "groupusers"
        /\ PassLog[i].outcome = "ok" /\ PassLog[j].outcome = "ok"
        /\ PassLog[k].name = PassLog[i].name
        /\ PassLog[k].userId = Id(PassLog[j].id)

ListFailed(r) == r.op = "GET" /\ r.outcome = "fail"
\* The pass the pass variables describe belongs to the event being handled.
PassOfThisEvent == passState # "none" /\ passStart >= runStart
Records(member_type) ==
    CASE member_type = "groups" -> vXGroups
      [] member_type = "users" -> vXUsers
      [] OTHER -> vXGroupUsers

\* C7 -- Abort on service failure (as claimed): a request of a pass that
\* exhausts its retries is the last request of that pass, and the event is
\* deferred.
C7_AbortOnServiceFailure ==
    \A i \in DOMAIN PassLog :
        PassLog[i].outcome = "fail" =>
            (i = Len(PassLog) /\ (PassOfThisEvent => deferred))

\* C7 (amended) -- a list request that exhausts its retries is the last
\* request of its pass, ends the pass and defers the event; nothing else ends
\* a pass early or defers an event whose gates were passed, so a create or
\* delete request that exhausts its retries is skipped; and whatever the
\* requests of the pass achieved stays in the remote directory.
C7_AbortOnListFailure ==
    /\ \A i \in DOMAIN PassLog :
          ListFailed(PassLog[i]) =>
              (i = Len(PassLog) /\ passState = "aborted" /\ (PassOfThisEvent => deferred))
    /\ passState = "aborted" =>
          (PassLog # <<>> /\ ListFailed(PassLog[Len(PassLog)]))
    /\ deferred =>
          (status # StatusUp \/ \E i \in DOMAIN RunLog : ListFailed(RunLog[i]))
    /\ \A i \in DOMAIN PassLog :
          (IsChange(PassLog[i]) /\ PassLog[i].outcome = "ok") =>
              ((PassLog[i].op = "POST") <=>
                  (\E x \in Records(PassLog[i].member_type) : x.id = PassLog[i].id))

\* A create or delete request failed for good, the pass went on to send
\* another request and completed, and the event is not deferred.
C7_Witness ==
    /\ passState = "completed"
    /\ ~deferred
    /\ \E i \in DOMAIN PassLog :
          /\ IsChange(PassLog[i])
          /\ PassLog[i].outcome = "fail"
          /\ \E j \in DOMAIN PassLog : j > i /\ IsChange(PassLog[j])

C9_PerScopeDesired ==
    passState # "none" =>
        \E i \in DOMAIN config : config[i].key = passKey /\ config[i].data = passDesired

\* C10 -- Scope independence: once the handler has processed a configuration
\* of two or more scopes with every request succeeding, every group and
\* every membership declared under any scope exists remotely.
C10_ScopeIndependence ==
    (/\ pc = "idle"
     /\ runs > 0
     /\ leader
     /\ status = StatusUp
     /\ ~crashed
     /\ Len(config) >= 2
     /\ AllOk(RunLog)) =>
        \A i \in DOMAIN config :
            /\ NamesOf(config[i].data.groups) \subseteq Names(vXGroups)
            /\ ResolvedPairs(config[i].data.memberships, vXUsers)
                  \subseteq Combinations(vXGroupUsers)


(***************************************************************************)
(* C11: a wrapped request is called at most three times, stops at the      *)
(* first call that returns and hands back its response; the sleeps between *)
(* the calls are 2 s then 4 s, 6 s in all when the third call returns.     *)
(***************************************************************************)
Sum(s) == IF s = <<>> THEN 0 ELSE IF Len(s) = 1 THEN s[1] ELSE s[1] + s[2]

C11_RetryBound ==
    /\ Len(calls) <= 3
    /\ \A i \in DOMAIN calls : i < Len(calls) => calls[i] \in Exceptions
    /\ rpc = "returned" => calls # <<>> /\ result = <<calls[Len(calls)]>> /\ result[1] \in Responses
    /\ rpc = "try" => Len(slept) = Len(calls)
    /\ rpc \in {"returned", "raised"} => Len(slept) = Len(calls) - 1
    /\ Len(slept) <= 2
    /\ \A i \in DOMAIN slept : slept[i] = IF i = 1 THEN 2 ELSE 4
    /\ (rpc = "returned" /\ Len(calls) = 3) => Sum(slept) = 6

C11_Witness == rpc = "returned" /\ Len(calls) = 3 /\ result = <<"200">> /\ slept = <<2, 4>>

Valid(data) == EXPECTED_KEYS \subseteq DOMAIN data
Last(log) == log[Len(log)]
\* How often the log holds a create request for that item, and how often the
\* record the pass works on asks for the item.
Posts(log, member_type, name, userId) ==
    Cardinality({i \in DOMAIN log :
        /\ log[i].op = "POST"
        /\ log[i].member_type = member_type
        /\ log[i].name = name
        /\ log[i].userId = userId})
Wanted(data, member_type, name, userId) ==
    IF member_type = "groupusers"
    THEN Cardinality(UNION {{<<i, j>> : j \in {j \in DOMAIN data.memberships[i].users :
                                                  data.memberships[i].users[j] = userId}} :
                            i \in {i \in DOMAIN data.memberships :
                                      data.memberships[i].groupname = name}})
    ELSE Cardinality({i \in DOMAIN data[member_type] : data[member_type][i].name = name})

(***************************************************************************)
(* C13 -- Soft failure: a create or delete request answered with another   *)
(* status than the expected one is not sent again (a create goes out at    *)
(* most as often as the record asks for the item, a delete once for an     *)
(* id); the pass goes on, it is aborted or left only by a later list       *)
(* request, and the event is deferred only when a list request failed.     *)
(***************************************************************************)
C13_SoftFailure ==
    (PassOfThisEvent /\ Valid(passDesired)) =>
        LET log == PassLog
            data == config_data[DataIdx(keyIdx)].data
        IN \A i \in DOMAIN log :
              (IsChange(log[i]) /\ log[i].outcome = "soft") =>
                 /\ log[i].op = "POST" =>
                       Posts(log, log[i].member_type, log[i].name, log[i].userId)
                           <= Wanted(data, log[i].member_type, log[i].name, log[i].userId)
                 /\ log[i].op = "DELETE" =>
                       Cardinality({j \in DOMAIN log :
                           /\ log[j].op = "DELETE"
                           /\ log[j].member_type = log[i].member_type
                           /\ log[j].id = log[i].id}) = 1
                 /\ passState = "aborted" => \E j \in (i + 1)..Len(log) : ListFailed(log[j])
                 /\ passState = "crashed" =>
                       \E j \in (i + 1)..Len(log) : log[j].op = "GET" /\ log[j].outcome = "soft"
                 /\ deferred => \E j \in DOMAIN RunLog : ListFailed(RunLog[j])

\* A pass completed, without deferring, that went on with further changes
\* after a create or delete request got an unexpected status.
C13_Witness ==
    /\ PassOfThisEvent
    /\ passState = "completed"
    /\ ~deferred
    /\ ~crashed
    /\ \E i \in DOMAIN PassLog : \E j \in DOMAIN PassLog :
          /\ i < j
          /\ IsChange(PassLog[i])
          /\ PassLog[i].outcome = "soft"
          /\ IsChange(PassLog[j])
          /\ PassLog[j].outcome = "ok"
          /\ PassLog[j].member_type # PassLog[i].member_type

(***************************************************************************)
(* C14 -- Only a service error aborts a pass (as claimed): when every      *)
(* scope of the configuration has its three keys, no exception leaves the  *)
(* handler, whatever way the list, create and delete requests end.         *)
(***************************************************************************)
C14_NoExceptionEscapes ==
    (\A i \in DOMAIN config : Valid(config[i].data)) => ~crashed

(***************************************************************************)
(* C15 -- Unresolvable membership user: a desired membership naming a user *)
(* the remote directory does not have does not end the pass with an        *)
(* exception (in the membership step only an unreadable list response      *)
(* does), and in the pass completed a create request was sent for every    *)
(* other desired pair that was not there and a delete request for every    *)
(* fetched membership that is not desired.                                 *)
(***************************************************************************)
C15_UnresolvableUser ==
    /\ (PassOfThisEvent /\ passState = "crashed" /\ kindIdx = Len(KindOrder)
            /\ Valid(passDesired)) =>
          (PassLog # <<>> /\ Last(PassLog).op = "GET" /\ Last(PassLog).outcome = "soft")
    /\ (PassOfThisEvent /\ passState = "completed") =>
          LET pairs == ResolvedPairs(passDesired.memberships, vXUsers)
              fetched == Range(existing_values)
          IN (\E p \in pairs : p[2].name # "") =>
                /\ \A p \in pairs :
                      p[2].name = "" =>
                         \/ p \in Combinations(fetched)
                         \/ Posts(PassLog, "groupusers", p[1], p[2]) > 0
                /\ \A m \in fetched :
                      <<m.name, m.userId>> \notin pairs =>
                         \E i \in DOMAIN PassLog :
                            /\ PassLog[i].op = "DELETE"
                            /\ PassLog[i].member_type = "groupusers"
                            /\ PassLog[i].id = m.id

\* A pass completed whose record names a user nobody knows: it sent a create
\* request under the bare name, created a membership of a user it resolved
\* and deleted a surplus membership.
C15_Witness ==
    /\ PassOfThisEvent
    /\ passState = "completed"
    /\ ~crashed
    /\ \E i \in DOMAIN PassLog :
          /\ PassLog[i].op = "POST"
          /\ PassLog[i].member_type = "groupusers"
          /\ PassLog[i].userId = Name("carol")
    /\ \E i \in DOMAIN PassLog :
          /\ PassLog[i].op = "POST"
          /\ PassLog[i].member_type = "groupusers"
          /\ PassLog[i].userId.name = ""
          /\ PassLog[i].outcome = "ok"
    /\ \E i \in DOMAIN PassLog :
          /\ PassLog[i].op = "DELETE"
          /\ PassLog[i].member_type = "groupusers"
          /\ PassLog[i].outcome = "ok"

(***************************************************************************)
(* C16 -- Configuration validation precedes reconciliation (as claimed):   *)
(* when a scope of the configuration lacks one of the three keys, no       *)
(* request is sent and no relation data is written.                        *)
(***************************************************************************)
C16_ValidationFirst ==
    (\E i \in DOMAIN config : ~Valid(config[i].data)) =>
        /\ requests = <<>>
        /\ \A r \in RelationIds : relation_data[r] = <<>>

C18_SurplusMemberships ==
    (PassOfThisEvent /\ passState = "completed") =>
        LET pairs == ResolvedPairs(passDesired.memberships, vXUsers)
            fetched == Range(existing_values)
            deletes == {i \in DOMAIN PassLog :
                           PassLog[i].op = "DELETE" /\ PassLog[i].member_type = "groupusers"}
        IN /\ \A m \in fetched :
                 IF <<m.name, m.userId>> \in pairs
                 THEN \A i \in deletes : PassLog[i].id # m.id
                 ELSE \E i \in deletes :
                         /\ PassLog[i].id \in {x.id : x \in {y \in fetched :
                                                  y.name = m.name /\ y.userId = m.userId}}
                         /\ \A j \in deletes :
                               (\E x \in fetched : x.id = PassLog[j].id /\ x.name = m.name
                                                   /\ x.userId = m.userId) => j = i
           /\ \A i \in deletes : \E m \in fetched : m.id = PassLog[i].id
           /\ \A i \in DOMAIN PassLog : \A j \in DOMAIN PassLog :
                 (i < j /\ PassLog[i].op = "GET" /\ PassLog[i].member_type = "groupusers"
                    /\ PassLog[j].op = "DELETE") => PassLog[j].member_type = "groupusers"

\* A pass completed that deleted two memberships of one user and kept the
\* group and the user of a membership it deleted.
C18_Witness ==
    /\ PassOfThisEvent
    /\ passState = "completed"
    /\ Cardinality({i \in DOMAIN PassLog :
           /\ PassLog[i].op = "DELETE"
           /\ PassLog[i].member_type = "groupusers"
           /\ PassLog[i].outcome = "ok"}) = 2
    /\ \E m \in Range(existing_values) :
          /\ m \notin vXGroupUsers
          /\ \E g \in vXGroups : g.name = m.name
          /\ \E u \in vXUsers : Id(u.id) = m.userId


\* The for loop of _handle_synchronize_file takes up the next key.
TakesKey == pc = "for_key" /\ keyIdx <= Len(config_data)
RelationLabel(r) == <<"relation_1", "relation_2", "relation_3">>[r]

Agrees ==
    /\ NamesOf(passDesired.groups) \subseteq Names(vXGroups)
    /\ Names(vXGroups) \ NamesOf(passDesired.groups) \subseteq SYSTEM_GROUPS
    /\ NamesOf(passDesired.users) \subseteq Names(vXUsers)
    /\ Combinations(vXGroupUsers) = ResolvedPairs(passDesired.memberships, vXUsers)

(***************************************************************************)
(* C19 -- At-least-once retry of a deferred pass: once a pass was aborted  *)
(* (and so deferred the event) on a unit whose configuration has its keys, *)
(* and from then on the requests succeed, the handler runs again and       *)
(* eventually a pass completes, the event is not deferred and the remote   *)
(* directory agrees with the record of the pass.                           *)
(***************************************************************************)
C19_AtLeastOnce ==
    (/\ PassOfThisEvent
     /\ passState = "aborted"
     /\ leader
     /\ status = StatusUp
     /\ faults = MaxFaults
     /\ \A i \in DOMAIN config : Valid(config[i].data))
    ~> (/\ PassOfThisEvent
        /\ passState = "completed"
        /\ ~deferred
        /\ AllOk(RunLog)
        /\ Agrees)

\* A pass completed and agrees with its record in a delivery that follows
\* one in which a list request failed.
C19_Witness ==
    /\ PassOfThisEvent
    /\ passState = "completed"
    /\ ~deferred
    /\ AllOk(RunLog)
    /\ Agrees
    /\ \E i \in 1..runStart : ListFailed(requests[i])

(***************************************************************************)
(* Properties of the persisted state and of the charm.                     *)
(***************************************************************************)
\* The id mapping the persisted state holds for a kind (key -> remote id);
\* RangerGroupManager reads and writes no field of the persisted state.
IdMapping(member_type) ==
    IF Stored(state, "id_mapping") THEN state["id_mapping"][member_type] ELSE EmptyDict

\* C21 -- Id-mapping invariant: after a pass that completed with every
\* request succeeding, the persisted id mapping has, for each kind, an entry
\* for every identity key of the desired record: the group names, the user
\* names and the resolved (group name, user id) pairs.
C21_IdMappingComplete ==
    (passState = "completed" /\ AllOk(PassLog)) =>
        /\ NamesOf(passDesired.groups) \subseteq DOMAIN IdMapping("groups")
        /\ NamesOf(passDesired.users) \subseteq DOMAIN IdMapping("users")
        /\ ResolvedPairs(passDesired.memberships, vXUsers)
              \subseteq DOMAIN IdMapping("groupusers")

\* The events whose handler is update(event) and nothing else.
UpdateEvents == {"config-changed", "ranger-pebble-ready"}
PasswordKeys == {"ranger_admin_password", "ranger_usersync_password"}
Hyphened(key) == IF key = "ranger_admin_password" THEN "ranger-admin-password"
                 ELSE "ranger-usersync-password"
CannotBeChanged(key, password) ==
    "value of '" \o Hyphened(key)
        \o "' config cannot be changed after deployment. Value should be " \o password

\* C22 -- Password immutability: every update() that runs while a password
\* recorded in the peer state differs from its config value sets
\* BlockedStatus with the message that the value cannot be changed after
\* deployment and leaves the pebble plan as it was.
C22_PasswordImmutable ==
    [][(/\ last_event' \in UpdateEvents
        /\ \E key \in PasswordKeys : Stored(state, key) /\ state[key] # charm_config'[key])
       => (/\ status_name' = "Blocked"
           /\ \E key \in PasswordKeys :
                 /\ Stored(state, key)
                 /\ state[key] # charm_config'[key]
                 /\ status' = CannotBeChanged(key, state[key])
           /\ plan' = plan)]_vars

\* C23 -- Blocked on invalid state: whenever validate() fails in update(),
\* the unit status becomes BlockedStatus with the message of the validation
\* and the container is not touched: nothing is pushed, no layer is added,
\* nothing is replanned and the pebble plan stays as it was.
C23_BlockedOnInvalid ==
    [][(/\ last_event' \in UpdateEvents
        /\ Validate(state, charm_config').raised # "")
       => (/\ status_name' = "Blocked"
           /\ status' = Validate(state, charm_config').message
           /\ container_calls' = <<>>
           /\ plan' = plan)]_vars

\* The database event of the admin lifecycle: endpoints "myhost:5432",
\* username "postgres_user", password "admin".
DatabaseEvent == [host |-> "myhost", port |-> "5432", user |-> "postgres_user",
                  password |-> "admin"]

\* C24 -- Admin becomes ready: on a leader admin unit whose peer relation
\* is established and whose container is reachable, once the database
\* changed event has been handled the pebble plan holds the single service
\* "ranger" with the admin entrypoint and the DB_HOST, DB_PORT, DB_USER and
\* DB_PWD of the event, and the status is Maintenance("replanning
\* application").
C24_AdminBecomesReady ==
    (/\ last_event = "database-changed"
     /\ is_leader
     /\ charm_config.charm_function = "admin"
     /\ peer
     /\ can_connect)
    => (/\ DOMAIN plan = {"ranger"}
        /\ plan["ranger"].command = ADMIN_ENTRYPOINT
        /\ plan["ranger"].environment.DB_HOST = DatabaseEvent.host
        /\ plan["ranger"].environment.DB_PORT = DatabaseEvent.port
        /\ plan["ranger"].environment.DB_USER = DatabaseEvent.user
        /\ plan["ranger"].environment.DB_PWD = DatabaseEvent.password
        /\ status_name = "Maintenance"
        /\ status = "replanning application")

\* The handler that ran last handled this event of the policy relation r.
PolicyEvent(event, r) == event \o ":" \o RelationKey(r)
ServiceIds(services) == {s.id : s \in services}

\* C25 -- Policy relation-changed on the leader with non-empty remote data
\* and a Ranger service created: afterwards the app databag of the relation
\* holds policy_manager_url equal to the policy-mgr-url config and
\* service_name equal to the remote "name", the peer state services maps
\* relation_<id> to the id of the created service, and the status is Active.
C25_ServiceCreated ==
    [][\A r \in RelationIds : \A s \in ranger_services' :
          (/\ last_event' = PolicyEvent("policy-relation-changed", r)
           /\ s.id \notin ServiceIds(ranger_services))
          => (/\ policy_data'[r] = [policy_manager_url |-> charm_config.policy_mgr_url,
                                    service_name |-> RemoteData(r).name]
              /\ Stored(state', "services")
              /\ RelationKey(r) \in DOMAIN state'["services"]
              /\ state'["services"][RelationKey(r)] = s.id
              /\ s.name = RemoteData(r).name
              /\ status_name' = "Active")]_vars

\* The leader handled relation-changed of relation 3 after that of relation
\* 1, created a service each time and recorded both.
C25_Witness ==
    /\ last_event = PolicyEvent("policy-relation-changed", 3)
    /\ is_leader
    /\ status_name = "Active"
    /\ Stored(state, "services")
    /\ DOMAIN state["services"] = {RelationKey(1), RelationKey(3)}
    /\ ServiceIds(ranger_services) = {1, 2}
    /\ policy_data[3] # EmptyDict

\* The policies hold a policy that is not a default one, or an item that is
\* not for the user of relation r.
NonDefault(policies, r) ==
    \/ \E p \in policies : p.name \notin DEFAULT_POLICIES
    \/ \E p \in policies : \E item \in p.policyItems : ~(RelationUser(r) \in item.users)
\* The handler of policy relation-broken for r got its answers from Ranger:
\* it then drops the entry of the relation from the recorded services.
BrokenHandled(r) ==
    /\ last_event' = PolicyEvent("policy-relation-broken", r)
    /\ r \in policy_relations
    /\ Stored(state, "services")
    /\ RelationKey(r) \in DOMAIN state["services"]
    /\ RelationKey(r) \notin DOMAIN state'["services"]

\* C26 -- Custom policies block service deletion: a service leaves Ranger
\* only in the handling of policy relation-broken of a relation r for which
\* it is recorded, and only if each of its policies is a default one whose
\* items all include relation_id_<r>; and such a service does leave Ranger
\* when the leader handles that event and Ranger answers.
C26_CustomPoliciesKept ==
    [][\A s \in ranger_services :
          /\ (s.id \notin ServiceIds(ranger_services'))
                => \E r \in RelationIds :
                      /\ BrokenHandled(r)
                      /\ state["services"][RelationKey(r)] = s.id
                      /\ ~NonDefault(s.policies, r)
          /\ \A r \in RelationIds :
                (/\ BrokenHandled(r)
                 /\ state["services"][RelationKey(r)] = s.id
                 /\ ~NonDefault(s.policies, r))
                => s.id \notin ServiceIds(ranger_services')]_vars

\* Relation 1 broke while its service had a policy item for another user, so
\* the service is still there; relation 3 broke afterwards and its service,
\* which had default policies only, is gone.
C26_Witness ==
    /\ last_event = PolicyEvent("policy-relation-broken", 3)
    /\ policy_relations = {}
    /\ Stored(state, "services")
    /\ DOMAIN state["services"] = {}
    /\ \E s \in ranger_services :
          /\ ranger_services = {s}
          /\ s.username = RelationUser(1)
          /\ \A p \in s.policies : p.name \in DEFAULT_POLICIES
          /\ NonDefault(s.policies, 1)

\* update() planned the usersync service in this step.
UsersyncPlanned ==
    /\ container_calls' # <<>>
    /\ container_calls'[Len(container_calls')] = "replan"
    /\ charm_config'.charm_function = "usersync"

\* C27 -- LDAP value precedence: in the usersync environment update() plans,
\* every key of RELATION_VALUES has the value stored from the LDAP relation
\* when the peer state holds a non-empty value for it and the config value
\* otherwise, and every other "sync" key has the config value.
C27_LdapPrecedence ==
    [][UsersyncPlanned =>
         /\ plan'["ranger"].command = USERSYNC_ENTRYPOINT
         /\ \A key \in SyncKeys :
               plan'["ranger"].environment[Upper(key)] =
                   IF /\ key \in RELATION_VALUES
                      /\ Stored(state', "ldap")
                      /\ key \in DOMAIN state'["ldap"]
                      /\ state'["ldap"][key] # None
                   THEN state'["ldap"][key]
                   ELSE charm_config'.sync[key]]_vars

\* The plan has the url of the LDAP relation although the config sets one,
\* and the bind password of the config as the relation gave none.
C27_Witness ==
    /\ "ranger" \in DOMAIN plan
    /\ plan["ranger"].command = USERSYNC_ENTRYPOINT
    /\ Truthy(state, "ldap")
    /\ charm_config.sync["sync_ldap_url"] = "config:sync_ldap_url"
    /\ plan["ranger"].environment["SYNC_LDAP_URL"] = state["ldap"]["sync_ldap_url"]
    /\ state["ldap"]["sync_ldap_url"] = "ldap://comsys-openldap-k8s:389"
    /\ state["ldap"]["sync_ldap_bind_password"] = None
    /\ plan["ranger"].environment["SYNC_LDAP_BIND_PASSWORD"] = "config:sync_ldap_bind_password"
    /\ last_event = "ldap-relation-changed"

LdapMessage == "Add an LDAP relation or update config values."
\* Some key of RELATION_VALUES is unset in the configuration cfg.
LdapUnset(cfg) == \E key \in RELATION_VALUES : cfg.sync[key] = None
\* The LDAP relation is gone: its handler stored the empty mapping.
LdapCleared(st) == Stored(st, "ldap") /\ st["ldap"] = EmptyDict
\* The plan has the values of the configuration for the keys of RELATION_VALUES.
PlansConfigValues(p, cfg) ==
    /\ "ranger" \in DOMAIN p
    /\ \A key \in RELATION_VALUES : p["ranger"].environment[Upper(key)] = cfg.sync[key]

\* C28 -- LDAP relation removal (as claimed): after the leader usersync unit
\* handled LDAP relation-broken the stored LDAP values are cleared and, as
\* long as a key of RELATION_VALUES is unset in config, the unit is Blocked
\* with "Add an LDAP relation or update config values."; once all those keys
\* are set, the next config-changed leaves the blocked state and produces a
\* plan that uses the config values.
C28_LdapRemoval ==
    [][/\ (last_event' = "ldap-relation-broken" /\ is_leader
              /\ charm_config.charm_function = "usersync")
          => ~Truthy(state', "ldap")
       /\ (is_leader /\ charm_config'.charm_function = "usersync" /\ LdapCleared(state')
              /\ LdapUnset(charm_config'))
          => (status_name' = "Blocked" /\ status' = LdapMessage)
       /\ (last_event' = "config-changed" /\ charm_config' # charm_config /\ is_leader
              /\ charm_config'.charm_function = "usersync" /\ LdapCleared(state)
              /\ ~LdapUnset(charm_config'))
          => (status_name' # "Blocked" /\ PlansConfigValues(plan', charm_config'))]_vars

\* C28 (amended) -- when the leader usersync unit handles LDAP relation-broken
\* with the container reachable, the stored LDAP values are cleared and, if a
\* key of RELATION_VALUES is unset in config, the unit is Blocked with that
\* message; every update() on config-changed or pebble-ready that finds the
\* values cleared and a key unset blocks the unit with it again (an
\* update-status in between sets Active); and a config-changed that sets all
\* those keys, with the container reachable, the passwords as recorded and no
\* OpenSearch relation, plans the config values and sets
\* Maintenance("replanning application").
C28_LdapRemovalHandled ==
    [][/\ (last_event' = "ldap-relation-broken" /\ is_leader /\ can_connect
              /\ charm_config.charm_function = "usersync")
          => (/\ LdapCleared(state')
              /\ LdapUnset(charm_config) => (status_name' = "Blocked" /\ status' = LdapMessage))
       /\ (last_event' \in UpdateEvents /\ peer /\ charm_config'.charm_function = "usersync"
              /\ LdapCleared(state) /\ LdapUnset(charm_config'))
          => (status_name' = "Blocked" /\ status' = LdapMessage /\ plan' = plan)
       /\ (last_event' = "config-changed" /\ charm_config' # charm_config /\ can_connect
              /\ charm_config'.charm_function = "usersync" /\ LdapCleared(state)
              /\ ~LdapUnset(charm_config') /\ ~Truthy(state, "opensearch")
              /\ \A key \in PasswordKeys : Stored(state, key) => state[key] = charm_config'[key])
          => (/\ status_name' = "Maintenance"
              /\ status' = "replanning application"
              /\ PlansConfigValues(plan', charm_config'))]_vars

\* The relation is gone and the unit, blocked for it, was given all the
\* values by the config: they are planned.
C28_Witness ==
    /\ last_event = "config-changed"
    /\ is_leader
    /\ LdapCleared(state)
    /\ ~LdapUnset(charm_config)
    /\ status = "replanning application"
    /\ PlansConfigValues(plan, charm_config)

\* C29 -- update-status: with the peer state not ready, or on an admin unit
\* without a recorded database connection, the handler leaves the status as
\* it was; on a usersync unit it sets Active("Status check: UP"); on an admin
\* unit after the admin lifecycle (peer ready, pebble ready, database
\* changed) it sets Active("Status check: UP") if the pebble check "up"
\* reports UP and Maintenance("Status check: DOWN") otherwise.
C29_UpdateStatus ==
    [][last_event' = "update-status" =>
         /\ (~peer \/ (charm_config.charm_function = "admin"
                          /\ ~Stored(state, "database_connection")
                          /\ last_event # "database-changed"))
               => (status' = status /\ status_name' = status_name)
         /\ (peer /\ charm_config.charm_function = "usersync")
               => (status_name' = "Active" /\ status' = "Status check: UP")
         /\ (peer /\ can_connect /\ is_leader /\ charm_config.charm_function = "admin"
                  /\ last_event = "database-changed")
               => IF check_up' THEN status_name' = "Active" /\ status' = "Status check: UP"
                  ELSE status_name' = "Maintenance" /\ status' = "Status check: DOWN"]_vars

\* C30 -- List failure stops the pass: after a list request of a pass that
\* exhausted its retries, the pass sends no create and no delete request, for
\* the kind listed or for a later kind, and the event is deferred; what the
\* create and delete requests before it achieved is still in the directory.
C30_ListFailureStopsPass ==
    \A i \in DOMAIN PassLog :
        ListFailed(PassLog[i]) =>
            /\ \A j \in DOMAIN PassLog :
                  j > i => (~IsChange(PassLog[j])
                            /\ KindRank(PassLog[j].member_type) < KindRank(PassLog[i].member_type))
            /\ PassOfThisEvent => deferred
            /\ \A j \in 1..(i - 1) :
                  (PassLog[j].op = "POST" /\ PassLog[j].outcome = "ok")
                      => \E x \in Records(PassLog[j].member_type) : x.id = PassLog[j].id
            /\ \A j \in 1..(i - 1) :
                  (PassLog[j].op = "DELETE" /\ PassLog[j].outcome = "ok")
                      => ~\E x \in Records(PassLog[j].member_type) : x.id = PassLog[j].id

\* The list of the users failed after the pass had deleted a group and
\* created another: the handler is back, the event deferred, both changes
\* are in the directory.
C30_Witness ==
    /\ pc = "idle"
    /\ deferred
    /\ passState = "aborted"
    /\ ListFailed(PassLog[Len(PassLog)])
    /\ PassLog[Len(PassLog)].member_type = "users"
    /\ \E j \in DOMAIN PassLog :
          PassLog[j].op = "POST" /\ PassLog[j].member_type = "groups" /\ PassLog[j].outcome = "ok"
    /\ \E j \in DOMAIN PassLog :
          PassLog[j].op = "DELETE" /\ PassLog[j].member_type = "groups" /\ PassLog[j].outcome = "ok"

(***************************************************************************)
(* Properties of the creations, of the desired record and of the gates of  *)
(* the handler.                                                            *)
(***************************************************************************)
\* C31 -- Set-based creation (as claimed): within one pass no create request
\* is sent twice for one group name, one user name or one (group name, user)
\* pair, also when the desired record repeats it, and none is sent for a
\* key the remote directory had when the pass fetched it; a pass that
\* completed sent exactly one for every desired key that was absent.
C31_SetBasedCreation ==
    (PassOfThisEvent /\ Valid(passDesired)) =>
        LET fetched(member_type) ==
                IF member_type = "groups" THEN passGroups ELSE passUsers
        IN /\ \A member_type \in {"groups", "users"} :
                \A n \in NamesOf(passDesired[member_type]) :
                   /\ Posts(PassLog, member_type, n, NoUser) <= 1
                   /\ n \in fetched(member_type) =>
                         Posts(PassLog, member_type, n, NoUser) = 0
                   /\ (passState = "completed" /\ n \notin fetched(member_type)) =>
                         Posts(PassLog, member_type, n, NoUser) = 1
           /\ \A i \in DOMAIN PassLog :
                (PassLog[i].op = "POST" /\ PassLog[i].member_type = "groupusers") =>
                   Posts(PassLog, "groupusers", PassLog[i].name, PassLog[i].userId) = 1
           /\ passState = "completed" =>
                \A p \in ResolvedPairs(passDesired.memberships, vXUsers) :
                   Posts(PassLog, "groupusers", p[1], p[2]) =
                      (IF p \in Combinations(Range(existing_values)) THEN 0 ELSE 1)

\* C32 -- Membership identity is by user id (as claimed): every create
\* request for a membership carries as userId the id of a remote user of
\* the pass, never a user name.
C32_MembershipByUserId ==
    \A i \in DOMAIN requests :
        (requests[i].op = "POST" /\ requests[i].member_type = "groupusers") =>
            /\ requests[i].userId.name = ""
            /\ \E u \in vXUsers : Id(u.id) = requests[i].userId

\* C33 -- The reconciler does not modify the desired record (as claimed):
\* after _synchronize returned, the record it was given is the record as
\* declared, and the relation data written from it holds user names, not
\* remote ids.
C33_DesiredRecordUnchanged ==
    /\ (PassOfThisEvent /\ passState = "completed") => Data = passDesired
    /\ \A r \in RelationIds : \A k \in DOMAIN relation_data[r] :
          Valid(relation_data[r][k]) =>
             \A i \in DOMAIN relation_data[r][k].memberships :
                \A j \in DOMAIN relation_data[r][k].memberships[i].users :
                   relation_data[r][k].memberships[i].users[j].name # ""

\* C34 -- Status gate: a unit whose status is not Active("Status check: UP")
\* defers every sync event it handles, sends no request, writes no relation
\* data and starts no pass, whether it is the leader or not; the handler is
\* inside a reconciliation only while the status is Active("Status check: UP").
C34_StatusGate ==
    /\ (status # StatusUp \/ status_name # "Active") =>
          /\ runs > 0 => deferred
          /\ requests = <<>>
          /\ \A r \in RelationIds : relation_data[r] = <<>>
          /\ pc = "idle"
          /\ passState = "none"
    /\ (pc # "idle" \/ passState # "none") => (status = StatusUp /\ status_name = "Active")

\* The event was delivered twice to the leader while the unit was replanning.
C34_Witness == leader /\ status = "replanning application" /\ runs = 2 /\ deferred

(***************************************************************************)
(* Properties of a unit with all its relations.                            *)
(***************************************************************************)
\* C35 -- Leader-only writes: no handler that runs on a unit that is not
\* the leader changes the peer state (the passwords, the truststore
\* password, services, ldap, opensearch, the database connection) or the
\* application data of a relation.
C35_LeaderOnlyWrites ==
    [][~leader => /\ state' = state
                  /\ policy_data' = policy_data
                  /\ ldap_data' = ldap_data]_vars

\* A unit that is not the leader ran update() to the plan with no password
\* stored, and was handed the data of a policy relation.
C35_Witness ==
    /\ ~leader
    /\ charm_config.charm_function = "usersync"
    /\ last_event = "policy-relation-changed:relation_1"
    /\ "ranger" \in DOMAIN plan
    /\ opensearch_relation
    /\ ~Stored(state, "ranger_admin_password")

\* The fields of the peer state that hold a secret.
Secrets == {"ranger_admin_password", "ranger_usersync_password", "truststore_pwd"}

\* C36 -- Write-once secrets: once the peer state holds a value for the
\* admin password, the usersync password or the truststore password, no
\* handler changes that value or removes it.
C36_WriteOnceSecrets ==
    [][\A key \in Secrets :
          Stored(state, key) => (Stored(state', key) /\ state'[key] = state[key])]_vars

\* The leader handled a config-changed that changed both passwords after
\* they had been stored: the stored ones are those of the deployment.
C36_Witness ==
    /\ leader
    /\ last_event = "config-changed"
    /\ Stored(state, "ranger_admin_password")
    /\ Stored(state, "ranger_usersync_password")
    /\ state["ranger_admin_password"] # charm_config.ranger_admin_password
    /\ state["ranger_usersync_password"] # charm_config.ranger_usersync_password
    /\ status_name = "Blocked"

(***************************************************************************)
(* Properties of the policy relation.                                      *)
(***************************************************************************)
\* The outcomes a handled policy relation-changed of relation r may end in.
Settled(r) ==
    \/ deferred
    \/ status_name = "Blocked" /\ status = "Unable to create service"
    \/ /\ status_name = "Active"
       /\ {"policy_manager_url", "service_name"} \subseteq DOMAIN policy_data[r]

\* C37 -- Policy relation-changed always reaches a settled outcome (as
\* claimed): when the leader has handled the event with data in it, the
\* event was deferred, or the unit is Blocked("Unable to create service"),
\* or the databag of the relation has policy_manager_url and service_name
\* and the unit is Active; also when the service of the relation was there
\* already.
C37_SettledOutcome ==
    \A r \in RelationIds :
        (leader /\ last_event = PolicyEvent("policy-relation-changed", r)) => Settled(r)

\* The services recorded in a peer state: relation_<id> -> service id.
Services(st) == IF Stored(st, "services") THEN st["services"] ELSE EmptyDict

\* C38 -- Service bookkeeping is consistent (as claimed): after every step,
\* each service in Ranger that the charm created for a relation has its
\* entry relation_<id> in the recorded services, and an entry goes only when
\* its service is not in Ranger afterwards.
C38_ServiceBookkeeping ==
    [][/\ \A s \in ranger_services' : \A r \in RelationIds :
             s.username = RelationUser(r) =>
                /\ RelationKey(r) \in DOMAIN Services(state')
                /\ Services(state')[RelationKey(r)] = s.id
       /\ \A k \in DOMAIN Services(state) \ DOMAIN Services(state') :
             Services(state)[k] \notin ServiceIds(ranger_services')]_vars

\* C39 -- Relation-broken without a recorded service is a no-op (as
\* claimed): when the leader handles policy relation-broken for a relation
\* that has no entry in the recorded services, also when no service was ever
\* recorded, the handler ends without an exception, changes nothing in
\* Ranger and leaves the peer state and the unit status as they were.
C39_BrokenWithoutService ==
    [][\A r \in RelationIds :
          (/\ leader
           /\ last_event' = PolicyEvent("policy-relation-broken", r)
           /\ r \in policy_relations
           /\ RelationKey(r) \notin DOMAIN Services(state))
          => (/\ escaped' = ""
              /\ ranger_services' = ranger_services
              /\ state' = state
              /\ status' = status
              /\ status_name' = status_name)]_vars

\* C40 -- OpenSearch restriction follows the relation (as claimed): an
\* update() of the unit would fail validate() with "Only Ranger admin can
\* relate to OpenSearch." only while the OpenSearch relation is established
\* and the charm is not an admin, so no longer once relation-broken has been
\* handled; and when the leader of an admin charm has handled relation-broken
\* with the container reachable, the plan has OPENSEARCH_ENABLED false.
C40_OpensearchRestriction ==
    /\ Validate(state, charm_config).message = "Only Ranger admin can relate to OpenSearch."
          => (opensearch_relation /\ charm_config.charm_function # "admin")
    /\ (/\ leader
        /\ is_ready
        /\ can_connect
        /\ charm_config.charm_function = "admin"
        /\ last_event = "opensearch-relation-broken")
          => /\ "ranger" \in DOMAIN plan
             /\ plan["ranger"].environment.OPENSEARCH_ENABLED = "False"

====
